---- MODULE Spec2Model ----
(***************************************************************************)
(* Model of openclaw-cc-bridge: the Run Coordinator (RunManager), the      *)
(* Subprocess Bridge (ClaudeBridge), the hook event emitter it subscribes  *)
(* to, and the Event Store it writes through.                              *)
(*                                                                         *)
(* The program runs on one JavaScript event loop.  Every action below is   *)
(* one callback run to completion.  Continuations of settled promises      *)
(* (microtasks) run before any timer or I/O callback (macrotasks), so the  *)
(* macrotask actions are guarded by MicrotaskQueueEmpty.                   *)
(***************************************************************************)
EXTENDS Integers, Sequences, FiniteSets, TLC

\* ------------------------------------------------------------------ values
None == "none"                       \* JavaScript undefined / null / ""
Absent == "absent"                   \* key not present in an object literal

Workspaces == {"w1", "w2"}
SessionIds == {"sA", "sB"}
HookTypes == {"session-start", "tool-use", "tool-failure",
              "subagent-start", "subagent-stop", "stop"}

\* ------------------------------------------------------------------ bounds
MaxRuns == 3            \* execute calls in Spec
MaxRetries == 1         \* maxTimeoutRetries in Spec
MaxLines == 1           \* stdout lines one run's subprocesses emit in Spec
MaxHooks == 1           \* hook events emitted in Spec
SendMaxRetries == 2     \* largest maxTimeoutRetries drawn in SpecSend
SendMaxLines == 3       \* stdout lines in SpecSend
CorrRuns == 2           \* execute calls in SpecCorr
CorrLines == 1          \* stdout lines of one run in SpecCorr
CorrHooks == 1          \* hook events emitted in SpecCorr
InboxAppends == 2       \* lines appended to the hook log in SpecInbox
InboxStarts == 2        \* start calls of the Hook Inbox in SpecInbox
MaxLineBytes == 8       \* bytes of the longest line of SpecInbox, with its LF
BadAppends == 2         \* lines appended to the hook log in SpecInboxBad
GraceLines == 2         \* stdout lines of the run in SpecGrace
GraceHooks == 2         \* hook events emitted in SpecGrace
PlanCommands == 4       \* commands of the sender in SpecPlan
LiveAppends == 2        \* append calls of SpecStoreLive
CrashAppends == 2       \* append calls of SpecStoreCrash
CrashMaxClock == 1      \* largest value of Date.now() in SpecStoreCrash
ThrowLines == 3         \* stdout lines of the run of SpecSendThrow
MetaAppends == 1        \* append calls of SpecStoreMeta
StoreAppends == 3       \* appendStreamEvent / appendHookEvent calls in SpecStore
StoreInstances == 2     \* EventStore instances over one directory in SpecStore
StoreMaxClock == 2      \* largest value of Date.now() in SpecStore

MaxOf(a, b) == IF a >= b THEN a ELSE b

Runs == 1..MaxOf(MaxRuns, CorrRuns)

VARIABLES
  cfg,             \* bridge options and the limits of this specification
  workspaceLocks,  \* RunManager.workspaceLocks: workspace -> lock (0: no entry)
  resolved,        \* locks (named by the run that made them) already resolved
  run,             \* per execute call: position and executeInner's locals
  br,              \* per execute call: bridge.send's locals and the child
  listeners,       \* EventEmitter listener lists of the hook emitter
  store,           \* EventStore: files and in-memory maps
  hooksEmitted,    \* number of hook events emitted so far
  clock,           \* Date.now()
  eventsFile,      \* the shared hook log events.jsonl and its writer
  inbox,           \* HookInbox: offset, leftover, watcher, poll timer
  sessions         \* SessionManager of one sender, and the commands in flight

vars == <<cfg, workspaceLocks, resolved, run, br, listeners, store,
          hooksEmitted, clock, eventsFile, inbox, sessions>>

\* ------------------------------------------------------------- Event Store
NoUpdates == [given |-> FALSE, workspace |-> Absent, firstPrompt |-> Absent,
              totals |-> Absent]

Updates(w, p, t) == [given |-> TRUE, workspace |-> w, firstPrompt |-> p,
                     totals |-> t]

\* { ...a, ...b } for one key: b's key wins when it is present
Spread(a, b) == IF b = Absent THEN a ELSE b

\* mutant: the index is marked dirty and no timer is set
markIndexDirtyNoTimer(st) == [st EXCEPT !.indexDirty = TRUE]

\* markIndexDirty: set the dirty flag, and a debounce timer unless one is
\* pending; timers counts the setTimeout callbacks that are pending
markIndexDirty(st) ==
  [st EXCEPT !.indexDirty = TRUE, !.flushTimer = TRUE,
             !.timers = IF st.flushTimer THEN @ ELSE @ + 1]

updateSessionMeta(st, sid, u, now) ==
  IF sid \notin DOMAIN st.meta THEN st
  ELSE LET existing == st.meta[sid]
           merged == [existing EXCEPT
                        !.workspace = Spread(@, u.workspace),
                        !.firstPrompt = Spread(@, u.firstPrompt),
                        !.totals = Spread(@, u.totals),
                        !.lastUpdatedAt = now]
           st1 == [st EXCEPT !.meta[sid] = merged]
       IN IF sid \in DOMAIN st.index
            THEN LET e == st.index[sid]
                     e1 == [e EXCEPT
                              !.lastUpdatedAt = now,
                              !.workspace =
                                 IF u.workspace \notin {Absent, None}
                                   THEN u.workspace ELSE @,
                              !.firstPrompt =
                                 IF u.firstPrompt \notin {Absent, None}
                                    /\ e.firstPrompt = None
                                   THEN u.firstPrompt ELSE @]
                 IN markIndexDirty([st1 EXCEPT !.index[sid] = e1])
            ELSE st1

ensureSession(st, sid, m, now) ==
  IF sid \notin DOMAIN st.meta
    THEN LET initial == [createdAt |-> now, lastUpdatedAt |-> now,
                         streamEventCount |-> 0, hookEventCount |-> 0,
                         workspace |-> Spread(None, m.workspace),
                         firstPrompt |-> Spread(None, m.firstPrompt),
                         totals |-> Spread(None, m.totals)]
             entry == [createdAt |-> now, lastUpdatedAt |-> now,
                       workspace |-> Spread(None, m.workspace),
                       firstPrompt |-> Spread(None, m.firstPrompt)]
         IN markIndexDirty(
              [st EXCEPT !.meta = (sid :> initial) @@ @,
                         !.index = (sid :> entry) @@ @])
    ELSE IF m.given THEN updateSessionMeta(st, sid, m, now)
    ELSE st

\* mutant: the counters of meta.json are left as they are
incrementMetaCountSkip(st, sid, field, now) == st

incrementMetaCount(st, sid, field, now) ==
  IF sid \notin DOMAIN st.meta THEN st
  ELSE IF field = "streamEventCount"
    THEN [st EXCEPT !.meta[sid].streamEventCount = @ + 1,
                    !.meta[sid].lastUpdatedAt = now]
    ELSE [st EXCEPT !.meta[sid].hookEventCount = @ + 1,
                    !.meta[sid].lastUpdatedAt = now]

touchSession(st, sid, now) ==
  IF sid \in DOMAIN st.index
    THEN markIndexDirty([st EXCEPT !.index[sid].lastUpdatedAt = now])
    ELSE st

\* a persisted line {seq, ts, type, data}; `by` and `own` are history fields:
\* the run that wrote the line and the id that run had established before
\* it handled the event
PersistedEvent(seq, now, type, sessionId, by, own) ==
  [seq |-> seq, ts |-> now, type |-> type, session_id |-> sessionId,
   by |-> by, own |-> own]

\* mutant: the sequence counter is never advanced
nextSeqStuck(seqs, sid) == 1

\* (this.streamSeqs.get(sessionId) ?? 0) + 1, and the same for hookSeqs
nextSeq(seqs, sid) == seqs[sid] + 1

\* an append reads Date.now() four times: in ensureSession, for the ts of the
\* entry, in incrementMetaCount and in touchSession; t holds the four values
appendStreamEventAt(st, sid, ev, t, by) ==
  LET st1 == ensureSession(st, sid, NoUpdates, t[1])
      seq == nextSeq(st1.streamSeqs, sid)
      st2 == [st1 EXCEPT
                !.streamSeqs[sid] = seq,
                !.stream[sid] = Append(@,
                   PersistedEvent(seq, t[2], ev.type, ev.session_id, by, sid))]
  IN touchSession(incrementMetaCount(st2, sid, "streamEventCount", t[3]),
                  sid, t[4])

appendHookEventAt(st, sid, hookType, evSid, t, by, own) ==
  LET st1 == ensureSession(st, sid, NoUpdates, t[1])
      seq == nextSeq(st1.hookSeqs, sid)
      st2 == [st1 EXCEPT
                !.hookSeqs[sid] = seq,
                !.hooks[sid] = Append(@,
                   PersistedEvent(seq, t[2], hookType, evSid, by, own))]
  IN touchSession(incrementMetaCount(st2, sid, "hookEventCount", t[3]),
                  sid, t[4])

\* the appends of a callback during which the millisecond clock stands still
appendStreamEvent(st, sid, ev, now, by) ==
  appendStreamEventAt(st, sid, ev, <<now, now, now, now>>, by)

appendHookEvent(st, sid, hookType, evSid, now, by, own) ==
  appendHookEventAt(st, sid, hookType, evSid, <<now, now, now, now>>, by, own)

\* index.json: absent, or the entries saveIndex wrote.  JSON.stringify drops
\* the keys whose value is undefined and JSON.parse gives undefined for a
\* missing key, so an entry is read back as it was written
NoIndexFile == [exists |-> FALSE, entries |-> <<>>]

\* saveIndex: writeFileSync(indexPath, JSON.stringify(entries)); saved tells
\* that the current call wrote the file (history)
saveIndex(st) ==
  [st EXCEPT !.indexFile = [exists |-> TRUE, entries |-> st.index],
             !.saved = TRUE]

\* mutant: flush leaves the debounce timer pending
flushKeepTimer(st) ==
  IF st.indexDirty THEN [saveIndex(st) EXCEPT !.indexDirty = FALSE] ELSE st

\* flush: clear the debounce timer, write the index when it is dirty
flush(st) ==
  LET st1 == [st EXCEPT !.flushTimer = FALSE,
                        !.timers = IF st.flushTimer THEN @ - 1 ELSE @]
  IN IF st1.indexDirty THEN [saveIndex(st1) EXCEPT !.indexDirty = FALSE]
     ELSE st1

\* the callback of the debounce timer set by markIndexDirty
flushTimerFired(st) ==
  LET st1 == [st EXCEPT !.flushTimer = FALSE, !.timers = @ - 1]
  IN IF st1.indexDirty THEN [saveIndex(st1) EXCEPT !.indexDirty = FALSE]
     ELSE st1

\* the entry rebuildIndex makes from a meta.json
IndexEntryOf(m) ==
  [createdAt |-> m.createdAt, lastUpdatedAt |-> m.lastUpdatedAt,
   workspace |-> m.workspace, firstPrompt |-> m.firstPrompt]

\* rebuildIndex: one entry per session directory with a meta.json; the index
\* is written when it is not empty
rebuildIndex(st) ==
  LET st1 == [st EXCEPT !.index = [s \in DOMAIN st.meta |->
                                     IndexEntryOf(st.meta[s])]]
  IN IF DOMAIN st1.index # {} THEN saveIndex(st1) ELSE st1

\* loadIndex: the entries of index.json, or the rebuilt index without it
loadIndex(st) ==
  IF ~st.indexFile.exists THEN rebuildIndex(st)
  ELSE [st EXCEPT !.index = st.indexFile.entries]

\* new EventStore(dataDir) over the files of st: empty maps, no timer, then
\* loadIndex; instance counts the constructions (history)
newEventStore(st) ==
  loadIndex([st EXCEPT !.index = <<>>,
                       !.streamSeqs = [s \in SessionIds |-> 0],
                       !.hookSeqs = [s \in SessionIds |-> 0],
                       !.indexDirty = FALSE, !.flushTimer = FALSE,
                       !.timers = 0, !.instance = @ + 1])

\* readJsonl: the non-blank lines of the file, each parsed; every line is
\* the JSON.stringify of one entry, so parsing gives the entries back
readJsonl(file) == [i \in 1..Len(file) |-> file[i]]

\* a new EventStore over an empty data directory; lastOp, saved and calls
\* are history: the last call made to the store, whether it wrote
\* index.json, and the appends called per session
EmptyStore ==
  [meta |-> <<>>, index |-> <<>>,
   stream |-> [s \in SessionIds |-> <<>>],
   hooks |-> [s \in SessionIds |-> <<>>],
   streamSeqs |-> [s \in SessionIds |-> 0],
   hookSeqs |-> [s \in SessionIds |-> 0],
   indexDirty |-> FALSE, flushTimer |-> FALSE, timers |-> 0,
   indexFile |-> NoIndexFile, instance |-> 1, lastOp |-> "none",
   saved |-> FALSE,
   calls |-> [s \in SessionIds |-> [stream |-> 0, hook |-> 0]]]

\* ------------------------------------------------- Run Coordinator: locals
NoResponse == [present |-> FALSE, session_id |-> None, retryCount |-> 0]

NoResult == [seen |-> FALSE, session_id |-> None]

NewRun ==
  [pc |-> "new", workspace |-> None, sessionId |-> None, prev |-> 0,
   streamSessionId |-> None, hookSessionId |-> None,
   hookActivities |-> <<>>, subagentActivities |-> <<>>,
   accumulatedText |-> 0, response |-> NoResponse, outcome |-> None,
   graceElapsed |-> FALSE]

NewBridge ==
  [attempt |-> 0, currentPrompt |-> None, currentSessionId |-> None,
   retryCount |-> 0, child |-> "none", started |-> FALSE, sessionId |-> None,
   resultEvent |-> NoResult, toolUses |-> 0, settle |-> "pending",
   errSessionId |-> None, exitCode |-> None, spawns |-> <<>>, timeouts |-> 0,
   linesLeft |-> 0, lines |-> <<>>]

\* streamSessionId || hookSessionId
Own(rr) ==
  IF rr.streamSessionId # None THEN rr.streamSessionId ELSE rr.hookSessionId

\* (data.sessionId as string | undefined) || hookSessionId
HookSid(rr, sid) == IF sid # None THEN sid ELSE rr.hookSessionId

\* an entry of hookActivities / subagentActivities; phase is where the run
\* was when its handler made the entry (history)
Activity(hookType, sid, phase) ==
  [type |-> hookType, session_id |-> sid, phase |-> phase]

\* --------------------------------------------- Run Coordinator: hook handlers
\* mutant: the tool handlers neither accumulate nor persist
onToolUseIgnored(r, rr, st, hookType, sid, now) == [run |-> rr, store |-> st]

onSessionStart(r, rr, st, sid, now) ==
  IF sid # None /\ rr.hookSessionId = None
    THEN [run |-> [rr EXCEPT !.hookSessionId = sid],
          store |-> appendHookEvent(
                      ensureSession(st, sid, Updates(Absent, Absent, Absent),
                                    now),
                      sid, "session-start", sid, now, r, Own(rr))]
    ELSE [run |-> rr, store |-> st]

onToolUse(r, rr, st, hookType, sid, now) ==
  LET s == HookSid(rr, sid) IN
  IF s # None /\ s = Own(rr)
    THEN [run |-> [rr EXCEPT !.hookActivities =
                                Append(@, Activity(hookType, sid, rr.pc))],
          store |-> appendHookEvent(st, s, hookType, sid, now, r, Own(rr))]
    ELSE [run |-> rr, store |-> st]

onSubagent(r, rr, st, hookType, sid, now) ==
  LET s == HookSid(rr, sid) IN
  IF s # None /\ s = Own(rr)
    THEN [run |-> [rr EXCEPT !.subagentActivities =
                                Append(@, Activity(hookType, sid, rr.pc))],
          store |-> appendHookEvent(st, s, hookType, sid, now, r, Own(rr))]
    ELSE [run |-> rr, store |-> st]

onStop(r, rr, st, sid, now) ==
  LET s == HookSid(rr, sid) IN
  IF s # None
    THEN [run |-> rr,
          store |-> appendHookEvent(st, s, "stop", sid, now, r, Own(rr))]
    ELSE [run |-> rr, store |-> st]

HandleHook(r, rr, st, hookType, sid, now) ==
  CASE hookType = "session-start" -> onSessionStart(r, rr, st, sid, now)
    [] hookType \in {"tool-use", "tool-failure"} ->
         onToolUse(r, rr, st, hookType, sid, now)
    [] hookType \in {"subagent-start", "subagent-stop"} ->
         onSubagent(r, rr, st, hookType, sid, now)
    [] OTHER -> onStop(r, rr, st, sid, now)

\* EventEmitter.emit: the listeners of the event, in registration order
RECURSIVE emit(_, _, _, _, _, _)
emit(ls, rs, st, hookType, sid, now) ==
  IF ls = <<>> THEN [run |-> rs, store |-> st]
  ELSE LET r == Head(ls)
           res == HandleHook(r, rs[r], st, hookType, sid, now)
       IN emit(Tail(ls), [rs EXCEPT ![r] = res.run], res.store,
               hookType, sid, now)

RemoveFrom(ls, r) == SelectSeq(ls, LAMBDA x : x # r)

registerListeners(l, r) == [k \in HookTypes |-> Append(l[k], r)]

removeListeners(l, r) == [k \in HookTypes |-> RemoveFrom(l[k], r)]

\* ------------------------------------------ Run Coordinator: stream callbacks
onRawEvent(r, rr, st, ev, now) ==
  LET rr1 == IF ev.type = "system" /\ ev.session_id # None
                /\ rr.streamSessionId = None
               THEN [rr EXCEPT !.streamSessionId = ev.session_id]
               ELSE rr
  IN IF rr1.streamSessionId # None
       THEN [run |-> rr1,
             store |-> appendStreamEvent(st, rr1.streamSessionId, ev, now, r)]
       ELSE [run |-> rr1, store |-> st]

\* onRawEvent when the append to stream.jsonl fails: the run has taken the
\* id of a system event, the session is ensured and the sequence number is
\* taken, and appendFileSync throws; the exception leaves the callback
onRawEventThrows(r, rr, st, ev, now) ==
  LET rr1 == IF ev.type = "system" /\ ev.session_id # None
                /\ rr.streamSessionId = None
               THEN [rr EXCEPT !.streamSessionId = ev.session_id]
               ELSE rr
      sid == rr1.streamSessionId
      st1 == ensureSession(st, sid, NoUpdates, now)
  IN [run |-> rr1,
      store |-> [st1 EXCEPT !.streamSeqs[sid] = nextSeq(st1.streamSeqs, sid)]]

onSessionId(r, rr, st, sid, now) ==
  LET rr1 == IF rr.streamSessionId = None
               THEN [rr EXCEPT !.streamSessionId = sid] ELSE rr
      isNew == rr.sessionId = None
  IN IF sid = rr1.streamSessionId
       THEN [run |-> rr1,
             store |-> ensureSession(st, sid,
                         Updates(rr.workspace,
                                 IF isNew THEN "prompt" ELSE Absent, Absent),
                         now)]
       ELSE [run |-> rr1, store |-> st]

onText(rr) == [rr EXCEPT !.accumulatedText = @ + 1]

\* -------------------------------------------------------- Subprocess Bridge
\* one parsed stdout line; "junk" is a line JSON.parse rejects
StreamEvent(type, sid, block) ==
  [type |-> type, session_id |-> sid, block |-> block]

StreamEvents ==
  {StreamEvent("system", s, None) : s \in SessionIds}
  \cup {StreamEvent("assistant", None, b) : b \in {"text", "tool_use"}}
  \cup {StreamEvent("result", s, None) : s \in SessionIds \cup {None}}
  \cup {StreamEvent("junk", None, None)}

\* exit codes of the child: success and failure
ExitCodes == {0, 1}

\* mutant: the session id is never passed on
buildArgsNoResume(prompt, sessionId) == [prompt |-> prompt, resume |-> None]

\* buildArgs: -p prompt, and --resume only with a session id
buildArgs(prompt, sessionId) == [prompt |-> prompt, resume |-> sessionId]

\* spawnAndParse, up to the return of the promise: spawn and fresh locals
spawnChild(b, args) ==
  [b EXCEPT !.child = "running", !.started = FALSE, !.sessionId = None,
            !.resultEvent = NoResult, !.toolUses = 0, !.settle = "pending",
            !.errSessionId = None, !.exitCode = None,
            !.spawns = Append(@, args)]

\* the (sid) => { sessionId = sid } callback of spawnAndParse
setSessionId(current, sid) == sid

\* handleEvent followed by the result check of the line handler
handleEvent(r, b, rr, st, ev, now) ==
  CASE ev.type = "system" /\ ev.session_id # None ->
         LET cb == onSessionId(r, rr, st, ev.session_id, now)
         IN [br |-> [b EXCEPT !.sessionId = setSessionId(@, ev.session_id)],
             run |-> cb.run, store |-> cb.store]
    [] ev.type = "assistant" /\ ev.block = "tool_use" ->
         [br |-> [b EXCEPT !.toolUses = @ + 1], run |-> rr, store |-> st]
    [] ev.type = "assistant" /\ ev.block = "text" ->
         [br |-> b, run |-> onText(rr), store |-> st]
    [] ev.type = "result" ->
         [br |-> [b EXCEPT !.resultEvent =
                              [seen |-> TRUE, session_id |-> ev.session_id]],
          run |-> rr, store |-> st]
    [] OTHER -> [br |-> b, run |-> rr, store |-> st]

\* mutant: the line handler without its try/catch around JSON.parse
onLineNoCatch(r, b, rr, st, ev, now) ==
  LET raw == onRawEvent(r, rr, st, ev, now)
  IN handleEvent(r, b, raw.run, raw.store, ev, now)

\* rl.on("line")
onLine(r, b, rr, st, ev, now) ==
  IF ev.type = "junk" THEN [br |-> b, run |-> rr, store |-> st]
  ELSE LET raw == onRawEvent(r, rr, st, ev, now)
       IN handleEvent(r, b, raw.run, raw.store, ev, now)

\* rl.on("line") when a callback throws: the catch block of the handler
\* takes the exception, and the rest of the try block is skipped
onLineThrows(r, b, rr, st, ev, now) ==
  LET raw == onRawEventThrows(r, rr, st, ev, now)
  IN [br |-> b, run |-> raw.run, store |-> raw.store]

\* the response the close handler resolves with
Response(b) ==
  [present |-> TRUE,
   session_id |-> IF b.resultEvent.session_id # None
                    THEN b.resultEvent.session_id ELSE b.sessionId,
   retryCount |-> b.retryCount]

\* mutant: every error of an attempt is retried, not only a timeout
canRetryAnyError(b, maxTimeoutRetries) ==
  b.settle # "resolved" /\ b.attempt < maxTimeoutRetries

\* mutant: off by one in the retry limit
canRetryOneMore(b, maxTimeoutRetries) ==
  b.settle = "timeout" /\ b.attempt <= maxTimeoutRetries

\* send's catch: err instanceof ClaudeTimeoutError && attempt < maxTimeoutRetries
canRetry(b, maxTimeoutRetries) ==
  b.settle = "timeout" /\ b.attempt < maxTimeoutRetries

\* err.sessionId || currentSessionId
resumeId(b) ==
  IF b.errSessionId # None THEN b.errSessionId ELSE b.currentSessionId

\* mutant: the guard on a missing resume id is left out
cannotResumeNever(id) == FALSE

\* if (!resumeId) throw err
cannotResume(id) == id = None

\* the retry branch of send: next attempt with --resume and the fixed prompt
retry(b) ==
  LET b1 == [b EXCEPT !.currentSessionId = resumeId(b),
                      !.currentPrompt = "Continue.",
                      !.retryCount = @ + 1,
                      !.attempt = @ + 1]
  IN spawnChild(b1, buildArgs(b1.currentPrompt, b1.currentSessionId))

\* ---------------------------------------------------------------- Hook Inbox
\* The hook log is a sequence of bytes.  A byte of the model is one token of
\* a line (a brace, a field value, a text character) or one of the two bytes
\* of a two-byte UTF-8 character; a chunk boundary can fall between any two
\* bytes.
NL == "LF"                            \* the line feed a hook command appends
Lead == "C3"                          \* first byte of the two-byte character
Cont == "A9"                          \* its continuation byte
TwoByteChar == "eacute"               \* the decoded two-byte character
Replacement == "U+FFFD"               \* what the decoder puts for bad bytes

HookNames == {"SessionStart", "PostToolUse", "PostToolUseFailure",
              "SubagentStart", "SubagentStop", "Stop"}

HOOK_EVENT_MAP(name) ==
  CASE name = "SessionStart" -> "session-start"
    [] name = "PostToolUse" -> "tool-use"
    [] name = "PostToolUseFailure" -> "tool-failure"
    [] name = "SubagentStart" -> "subagent-start"
    [] name = "SubagentStop" -> "subagent-stop"
    [] name = "Stop" -> "stop"

\* the serial number a hook process puts in the payload of its k-th line
Serial(k) == "n" \o ToString(k)

TextChars == {"a", TwoByteChar, Replacement}

NullLiteral == "null"                 \* the JSON text null, and its value
Garbled == "garbled"                  \* a token JSON.parse rejects

\* the characters of one hook line: {hook_event_name, session_id, payload}
HookLine(name, sid, text) == [name |-> name, session_id |-> sid, text |-> text]

LineChars(l, k) ==
  IF l.name = NullLiteral THEN <<NullLiteral>>
  ELSE <<"{", l.name, l.session_id, Serial(k)>> \o l.text \o <<"}">>

\* UTF-8 encoding of the characters a hook process writes
RECURSIVE Encode(_)
Encode(cs) ==
  IF cs = <<>> THEN <<>>
  ELSE IF Head(cs) = TwoByteChar THEN <<Lead, Cont>> \o Encode(Tail(cs))
  ELSE <<Head(cs)>> \o Encode(Tail(cs))

\* buffer.toString("utf-8"): a lead byte without its continuation byte, and
\* a continuation byte without its lead byte, each decode to U+FFFD
RECURSIVE Decode(_)
Decode(bs) ==
  IF bs = <<>> THEN <<>>
  ELSE IF Head(bs) = Lead
    THEN IF Len(bs) >= 2 /\ bs[2] = Cont
           THEN <<TwoByteChar>> \o Decode(Tail(Tail(bs)))
           ELSE <<Replacement>> \o Decode(Tail(bs))
  ELSE IF Head(bs) = Cont THEN <<Replacement>> \o Decode(Tail(bs))
  ELSE <<Head(bs)>> \o Decode(Tail(bs))

\* the one element of a set of one element: binds a value that is computed
\* once and used several times
The(S) == CHOOSE x \in S : TRUE

\* newData.split("\n") followed by parts.pop()
RECURSIVE split(_, _, _)
split(cs, cur, parts) ==
  IF cs = <<>> THEN [parts |-> parts, leftover |-> cur]
  ELSE IF Head(cs) = NL THEN split(Tail(cs), <<>>, Append(parts, cur))
  ELSE split(Tail(cs), Append(cur, Head(cs)), parts)

\* line.trim()
RECURSIVE trim(_)
trim(cs) ==
  IF cs = <<>> THEN cs
  ELSE IF Head(cs) = " " THEN trim(Tail(cs))
  ELSE IF cs[Len(cs)] = " " THEN trim(SubSeq(cs, 1, Len(cs) - 1))
  ELSE cs

\* JSON.parse succeeds on the literal null, and on an object with its braces
\* and its fields in place
parses(cs) ==
  \/ cs = <<NullLiteral>>
  \/ /\ Len(cs) >= 5
     /\ cs[1] = "{" /\ cs[Len(cs)] = "}"
     /\ cs[2] \in HookNames \cup {"Other", None}
     /\ cs[3] \in SessionIds \cup {None}
     /\ \A i \in 5..(Len(cs) - 1) : cs[i] \in TextChars

parse(cs) ==
  IF cs = <<NullLiteral>> THEN [value |-> NullLiteral]
  ELSE [value |-> "object",
        hook_event_name |-> cs[2], session_id |-> cs[3], serial |-> cs[4],
        text |-> SubSeq(cs, 5, Len(cs) - 1)]

\* what a listener gets for a line, and where it came from (history)
Emitted(type, data, gen) ==
  [type |-> type, session_id |-> data.session_id, serial |-> data.serial,
   text |-> data.text, gen |-> gen]

\* reading a property of null throws a TypeError
throws(data) == data.value = NullLiteral

\* a TypeError leaves the callback; threw counts them (history)
Thrown(acc) == [acc EXCEPT !.inbox.threw = @ + 1]

\* emitNormalized: reading data.hook_event_name of null throws a TypeError;
\* lines without a known hook_event_name are dropped; the
\* others go to the listeners of their kind.  acc is the inbox together
\* with what the listeners write to: the runs and the Event Store
emitNormalized(acc, ls, data, now) ==
  IF throws(data) THEN Thrown(acc)
  ELSE IF data.hook_event_name = None THEN acc
  ELSE IF data.hook_event_name \notin HookNames THEN acc
  ELSE LET type == HOOK_EVENT_MAP(data.hook_event_name)
           res == emit(ls[type], acc.run, acc.store, type, data.session_id,
                       now)
       IN [inbox |-> [acc.inbox EXCEPT !.emitted =
                         Append(@, Emitted(type, data, acc.inbox.gen))],
           run |-> res.run, store |-> res.store]

\* the loop of readNewLines over the complete lines of one read; only the
\* exception of JSON.parse is caught, any other ends the loop
RECURSIVE emitLines(_, _, _, _)
emitLines(parts, acc, ls, now) ==
  IF parts = <<>> THEN acc
  ELSE LET trimmed == trim(Head(parts)) IN
       IF trimmed = <<>> THEN emitLines(Tail(parts), acc, ls, now)
       ELSE IF ~parses(trimmed) THEN emitLines(Tail(parts), acc, ls, now)
       ELSE IF throws(parse(trimmed))
         THEN emitNormalized(acc, ls, parse(trimmed), now)
       ELSE emitLines(Tail(parts),
                      emitNormalized(acc, ls, parse(trimmed), now), ls, now)

\* mutant: the offset is not advanced after a read
advanceOffsetNever(offset, bytesRead) == offset

\* this.offset += bytesRead
advanceOffset(offset, bytesRead) == offset + bytesRead

\* readNewLines: read the bytes from the offset to the size of the file,
\* decode them, put the leftover in front, emit the complete lines and keep
\* the incomplete last one as the new leftover
readNewLines(ib, bytes, rs, st, ls, now) ==
  LET fileSize == Len(bytes)
      acc == [inbox |-> ib, run |-> rs, store |-> st]
  IN IF ib.stopped THEN acc
     ELSE IF fileSize <= ib.offset THEN acc
     ELSE LET bytesRead == fileSize - ib.offset IN
          The({emitLines(sp.parts,
                         [acc EXCEPT
                            !.inbox.offset = advanceOffset(@, bytesRead),
                            !.inbox.leftover = sp.leftover],
                         ls, now) :
                 sp \in {split(newData, <<>>, <<>>) :
                           newData \in {ib.leftover \o Decode(
                              SubSeq(bytes, ib.offset + 1, fileSize))}}})

\* mutant: the poll callback does nothing
pollIdle(ib, bytes, rs, st, ls, now) == [inbox |-> ib, run |-> rs, store |-> st]

\* poll: returns when stopped, else reads the new lines
poll(ib, bytes, rs, st, ls, now) ==
  IF ib.stopped THEN [inbox |-> ib, run |-> rs, store |-> st]
  ELSE readNewLines(ib, bytes, rs, st, ls, now)

\* mutant: start reads the log from its beginning
startOffsetZero(fileSize) == 0

\* start: this.offset = statSync(this.eventsPath).size
startOffset(fileSize) == fileSize

\* mutant: stop keeps the leftover
stopKeepLeftover(ib) ==
  [ib EXCEPT !.stopped = TRUE, !.watcher = FALSE, !.pollTimer = FALSE,
             !.offset = 0]

\* stop: close the watcher, clear the timer, reset offset and leftover
stop(ib) ==
  [ib EXCEPT !.stopped = TRUE, !.watcher = FALSE, !.pollTimer = FALSE,
             !.offset = 0, !.leftover = <<>>]

\* the fields of HookInbox after its constructor; gen counts the calls of
\* start, seen is the number of lines the log held at each start, emitted
\* is what was emitted so far and late says that a callback ran after stop
\* (history)
NewInbox ==
  [offset |-> 0, leftover |-> <<>>, watcher |-> FALSE, pollTimer |-> FALSE,
   stopped |-> FALSE, gen |-> 0, seen |-> <<>>, emitted |-> <<>>,
   threw |-> 0, late |-> FALSE]

\* the file, the bytes the writer of the current line has still to append,
\* and the lines written so far with their place in the file (history)
NewEventsFile == [bytes |-> <<>>, pending |-> <<>>, lines |-> <<>>, epoch |-> 0]

\* ----------------------------------------------------------- Session Manager
\* the workspace sessions of one sender.  pendingPlan is TRUE or undefined
\* (FALSE here): setPendingPlan stores `pending || undefined`
NoSession == [exists |-> FALSE, claudeSessionId |-> None, pendingPlan |-> FALSE]

\* calls: the command handlers called so far, with what each got from
\* runManager.execute (history once a handler has returned)
NewSessions == [ws |-> [w \in Workspaces |-> NoSession], calls |-> <<>>]

getSession(ss, w) == ss.ws[w]

hasPendingPlan(ss, w) == getSession(ss, w).exists /\ getSession(ss, w).pendingPlan

setPendingPlan(ss, w, pending) ==
  IF getSession(ss, w).exists THEN [ss EXCEPT !.ws[w].pendingPlan = pending]
  ELSE ss

\* updateSession: a new session object, without the pendingPlan key
updateSession(ss, w, claudeSessionId) ==
  [ss EXCEPT !.ws[w] = [exists |-> TRUE, claudeSessionId |-> claudeSessionId,
                        pendingPlan |-> FALSE]]

removeSession(ss, w) == [ss EXCEPT !.ws[w] = NoSession]

CommandCall(cmd, w, sid, state) ==
  [cmd |-> cmd, workspace |-> w, sessionId |-> sid, state |-> state]

called(ss, cmd, w, sid, state) ==
  [ss EXCEPT !.calls = Append(@, CommandCall(cmd, w, sid, state))]

\* /cc-plan up to `await runManager.execute`
ccPlan(ss, w) ==
  IF hasPendingPlan(ss, w) THEN called(ss, "plan", w, None, "rejected")
  ELSE called(ss, "plan", w, getSession(ss, w).claudeSessionId, "running")

\* /cc-execute up to `await runManager.execute`
ccExecute(ss, w) ==
  IF ~hasPendingPlan(ss, w) THEN called(ss, "execute", w, None, "rejected")
  ELSE IF getSession(ss, w).claudeSessionId = None
    THEN called(ss, "execute", w, None, "rejected")
  ELSE called(setPendingPlan(ss, w, FALSE), "execute", w,
              getSession(ss, w).claudeSessionId, "running")

\* /cc up to `await runManager.execute`
ccSend(ss, w) ==
  called(IF hasPendingPlan(ss, w) THEN setPendingPlan(ss, w, FALSE) ELSE ss,
         "send", w, getSession(ss, w).claudeSessionId, "running")

\* /cc-reset -w <path>
ccReset(ss, w) == called(removeSession(ss, w), "reset", w, None, "done")

\* mutant: the catch block of /cc-execute does not restore the marker
executeFailedNoRestore(ss, w) == ss

\* the catch block of /cc-execute
executeFailed(ss, w) == setPendingPlan(ss, w, TRUE)

\* the handler continues after runManager.execute returned a response
afterRun(ss, c, sid) ==
  CASE c.cmd = "plan" ->
         setPendingPlan(updateSession(ss, c.workspace, sid), c.workspace, TRUE)
    [] OTHER -> updateSession(ss, c.workspace, sid)

\* the handler continues in its catch block after runManager.execute threw
afterError(ss, c) ==
  CASE c.cmd = "execute" -> executeFailed(ss, c.workspace)
    [] OTHER -> ss

\* runManager.execute serves the calls of one workspace in the order they
\* were made
Foremost(ss, i) ==
  /\ ss.calls[i].state = "running"
  /\ \A j \in 1..(i - 1) :
       ss.calls[j].workspace = ss.calls[i].workspace
         => ss.calls[j].state # "running"

\* ------------------------------------------------------------ the event loop
\* mutant: every call starts from a resolved promise (no chaining)
PrevLockNone(locks, w) == 0

\* mutant: one lock for all workspaces
PrevLockGlobal(locks, w) ==
  IF \E v \in Workspaces : locks[v] # 0
    THEN CHOOSE m \in {locks[v] : v \in Workspaces} :
           \A v \in Workspaces : locks[v] <= m
    ELSE 0

\* this.workspaceLocks.get(opts.workspace) ?? Promise.resolve()
PrevLock(locks, w) == locks[w]

\* mutant: executeInner is called without awaiting prev
PrevResolvedNoAwait(rr, res) == TRUE

\* `await prev` can continue
PrevResolved(rr, res) == rr.prev = 0 \/ rr.prev \in res

MicrotaskPending(r) ==
  \/ run[r].pc \in {"settled", "innerDone"}
  \/ run[r].pc = "waiting" /\ PrevResolved(run[r], resolved)

MicrotaskQueueEmpty == \A r \in Runs : ~MicrotaskPending(r)

NextRun == Cardinality({r \in Runs : run[r].pc # "new"}) + 1

\* execute has returned or thrown: the locals of the call are gone; what
\* stays is what the caller got (result or error), and the history flag
returned(rr) ==
  [NewRun EXCEPT !.pc = "done", !.workspace = rr.workspace,
                 !.outcome = rr.outcome, !.graceElapsed = rr.graceElapsed]

\* mutant: the listeners are removed at the end of the try body only
finallyListenersOnSuccess(l, r, outcome) ==
  IF outcome = "ok" THEN removeListeners(l, r) ELSE l

\* listeners are removed in executeInner's finally, whatever the outcome
finallyListeners(l, r, outcome) == removeListeners(l, r)

\* mutant: the lock is resolved after a successful run only
finallyResolveOnSuccess(res, r, outcome) ==
  IF outcome = "ok" THEN res \cup {r} ELSE res

\* resolveLock() in execute's finally, whatever the outcome
finallyResolve(res, r, outcome) == res \cup {r}

\* ------------------------------------------------------------------ actions
\* RunManager.execute up to `await prev`
Execute(w, sid) ==
  LET r == NextRun IN
  /\ r <= cfg.runs
  /\ run' = [run EXCEPT ![r] = [@ EXCEPT !.pc = "waiting", !.workspace = w,
                                         !.sessionId = sid,
                                         !.prev = PrevLock(workspaceLocks, w)]]
  /\ workspaceLocks' = [workspaceLocks EXCEPT ![w] = r]
  /\ UNCHANGED <<eventsFile, inbox, sessions>>
  /\ UNCHANGED <<cfg, resolved, br, listeners, store, hooksEmitted, clock>>

\* continuation of `await prev`: executeInner registers the six listeners and
\* calls bridge.send, which builds the arguments and spawns the first child
Acquire(r) ==
  /\ run[r].pc = "waiting"
  /\ PrevResolved(run[r], resolved)
  /\ listeners' = registerListeners(listeners, r)
  /\ br' = [br EXCEPT ![r] =
              spawnChild([@ EXCEPT !.currentPrompt = "prompt",
                                   !.currentSessionId = run[r].sessionId,
                                   !.linesLeft = cfg.lines],
                         buildArgs("prompt", run[r].sessionId))]
  /\ run' = [run EXCEPT ![r].pc = "sending"]
  /\ UNCHANGED <<eventsFile, inbox, sessions>>
  /\ UNCHANGED <<cfg, workspaceLocks, resolved, store, hooksEmitted, clock>>

\* a line a child wrote, and the attempt it belongs to (history)
Written(ev, b) == [ev |-> ev, attempt |-> b.attempt]

\* the child writes one line to stdout
Line(r, ev) ==
  /\ MicrotaskQueueEmpty
  /\ run[r].pc = "sending"
  /\ br[r].child = "running"
  /\ br[r].linesLeft > 0
  /\ LET res == onLine(r, [br[r] EXCEPT !.linesLeft = @ - 1,
                                        !.started = TRUE,
                                        !.lines = Append(@, Written(ev, br[r]))],
                       run[r], store, ev, clock)
     IN /\ br' = [br EXCEPT ![r] = res.br]
        /\ run' = [run EXCEPT ![r] = res.run]
        /\ store' = res.store
  /\ UNCHANGED <<eventsFile, inbox, sessions>>
  /\ UNCHANGED <<cfg, workspaceLocks, resolved, listeners, hooksEmitted,
                 clock>>

\* the child writes one line to stdout and the Event Store cannot append
\* it: onRawEvent throws
LineThrows(r, ev) ==
  /\ MicrotaskQueueEmpty
  /\ run[r].pc = "sending"
  /\ br[r].child = "running"
  /\ br[r].linesLeft > 0
  /\ ev.type # "junk"
  /\ run[r].streamSessionId # None
       \/ (ev.type = "system" /\ ev.session_id # None)
  /\ LET res == onLineThrows(r, [br[r] EXCEPT
                                   !.linesLeft = @ - 1,
                                   !.started = TRUE,
                                   !.lines = Append(@, Written(ev, br[r]))],
                             run[r], store, ev, clock)
     IN /\ br' = [br EXCEPT ![r] = res.br]
        /\ run' = [run EXCEPT ![r] = res.run]
        /\ store' = res.store
  /\ UNCHANGED <<eventsFile, inbox, sessions>>
  /\ UNCHANGED <<cfg, workspaceLocks, resolved, listeners, hooksEmitted,
                 clock>>

\* the deadline timer of the attempt fires: rl.close(), SIGTERM and reject
\* with a timeout.  The close event of the killed child comes later and finds
\* the promise settled: its handler changes nothing
Timeout(r) ==
  /\ MicrotaskQueueEmpty
  /\ run[r].pc = "sending"
  /\ br[r].child = "running"
  /\ br' = [br EXCEPT ![r] = [@ EXCEPT !.child = "killed",
                                       !.settle = "timeout",
                                       !.errSessionId = br[r].sessionId,
                                       !.timeouts = @ + 1]]
  /\ run' = [run EXCEPT ![r].pc = "settled"]
  /\ UNCHANGED <<eventsFile, inbox, sessions>>
  /\ UNCHANGED <<cfg, workspaceLocks, resolved, listeners, store,
                 hooksEmitted, clock>>

\* the close handler's decision: if (!resultEvent) reject, else resolve; the
\* exit code only appears in the message of the error
closeSettle(b, code) == IF b.resultEvent.seen THEN "resolved" ELSE "noresult"

\* child.on("close", code): clear the timer, then resolve with the response,
\* or reject when no result event was seen
Close(r, code) ==
  /\ MicrotaskQueueEmpty
  /\ run[r].pc = "sending"
  /\ br[r].child = "running"
  /\ br' = [br EXCEPT ![r] = [@ EXCEPT !.child = "closed",
                                       !.exitCode = code,
                                       !.settle = closeSettle(br[r], code)]]
  /\ run' = [run EXCEPT ![r].pc = "settled"]
  /\ UNCHANGED <<eventsFile, inbox, sessions>>
  /\ UNCHANGED <<cfg, workspaceLocks, resolved, listeners, store,
                 hooksEmitted, clock>>

\* child.on("error"): the executable could not be launched
SpawnError(r) ==
  /\ MicrotaskQueueEmpty
  /\ run[r].pc = "sending"
  /\ br[r].child = "running"
  /\ ~br[r].started
  /\ br' = [br EXCEPT ![r] = [@ EXCEPT !.child = "closed",
                                       !.settle = "spawnfail"]]
  /\ run' = [run EXCEPT ![r].pc = "settled"]
  /\ UNCHANGED <<eventsFile, inbox, sessions>>
  /\ UNCHANGED <<cfg, workspaceLocks, resolved, listeners, store,
                 hooksEmitted, clock>>

\* continuation of `await this.spawnAndParse` in send, and of
\* `await this.bridge.send` in executeInner when send settles
SendSettled(r) ==
  /\ run[r].pc = "settled"
  /\ IF br[r].settle = "resolved"
       THEN \* send returns; executeInner starts the grace timer
            /\ run' = [run EXCEPT ![r] = [@ EXCEPT !.pc = "grace",
                                                   !.response = Response(br[r])]]
            /\ UNCHANGED <<br, listeners>>
       ELSE IF canRetry(br[r], cfg.maxTimeoutRetries)
               /\ ~cannotResume(resumeId(br[r]))
         THEN /\ br' = [br EXCEPT ![r] = retry(@)]
              /\ run' = [run EXCEPT ![r].pc = "sending"]
              /\ UNCHANGED listeners
         ELSE \* send throws; executeInner's finally runs
              /\ run' = [run EXCEPT ![r] = [@ EXCEPT !.pc = "innerDone",
                                                     !.outcome = br[r].settle]]
              /\ listeners' = finallyListeners(listeners, r, br[r].settle)
              /\ UNCHANGED br
  /\ UNCHANGED <<eventsFile, inbox, sessions>>
  /\ UNCHANGED <<cfg, workspaceLocks, resolved, store, hooksEmitted, clock>>

\* the grace timer fires: session totals, composition, finally, return
GraceElapsed(r) ==
  /\ MicrotaskQueueEmpty
  /\ run[r].pc = "grace"
  /\ store' = IF run[r].response.session_id # None
                THEN updateSessionMeta(store, run[r].response.session_id,
                                       Updates(Absent, Absent, "set"), clock)
                ELSE store
  /\ run' = [run EXCEPT ![r] = [@ EXCEPT !.pc = "innerDone",
                                         !.outcome = "ok",
                                         !.graceElapsed = TRUE]]
  /\ listeners' = finallyListeners(listeners, r, "ok")
  /\ UNCHANGED <<eventsFile, inbox, sessions>>
  /\ UNCHANGED <<cfg, workspaceLocks, resolved, br, hooksEmitted, clock>>

\* execute's finally: resolve the lock, drop the map entry if it is still ours;
\* the caller then sees the result or the error
ExecuteFinally(r) ==
  /\ run[r].pc = "innerDone"
  /\ resolved' = finallyResolve(resolved, r, run[r].outcome)
  /\ workspaceLocks' = IF workspaceLocks[run[r].workspace] = r
                         THEN [workspaceLocks EXCEPT ![run[r].workspace] = 0]
                         ELSE workspaceLocks
  /\ run' = [run EXCEPT ![r] = returned(@)]
  /\ br' = [br EXCEPT ![r] = NewBridge]
  /\ UNCHANGED <<eventsFile, inbox, sessions>>
  /\ UNCHANGED <<cfg, listeners, store, hooksEmitted, clock>>

\* the hook emitter emits one normalized event to its listeners
EmitHook(hookType, sid) ==
  /\ MicrotaskQueueEmpty
  /\ hooksEmitted < cfg.hooks
  /\ LET res == emit(listeners[hookType], run, store, hookType, sid, clock)
     IN /\ run' = res.run
        /\ store' = res.store
  /\ hooksEmitted' = hooksEmitted + 1
  /\ UNCHANGED <<eventsFile, inbox, sessions>>
  /\ UNCHANGED <<cfg, workspaceLocks, resolved, br, listeners, clock>>

\* --------------------------------------------------------- Hook Inbox actions
\* the service that owns the inbox calls start and stop in turn
Running == inbox.pollTimer

\* a hook command starts to append its line: the first n bytes of it
WriteLine(l, n) ==
  LET k == Len(eventsFile.lines) + 1
      bs == Encode(LineChars(l, k)) \o <<NL>>
      at == Len(eventsFile.bytes)
  IN /\ Len(eventsFile.lines) < cfg.appends
     /\ eventsFile.pending = <<>>
     /\ n \in 1..Len(bs)
     /\ eventsFile' =
          [eventsFile EXCEPT
             !.bytes = @ \o SubSeq(bs, 1, n),
             !.pending = SubSeq(bs, n + 1, Len(bs)),
             !.lines = Append(@,
                [line |-> l, start |-> at, end |-> at + Len(bs),
                 split |-> IF n < Len(bs) THEN n ELSE 0,
                 epoch |-> eventsFile.epoch,
                 gen |-> IF Running THEN inbox.gen ELSE 0,
                 whole |-> n = Len(bs)])]
     /\ UNCHANGED <<sessions, cfg, workspaceLocks, resolved, run, br, listeners, store,
                    hooksEmitted, clock, inbox>>

\* the hook command appends the rest of its line
WriteRest ==
  LET k == Len(eventsFile.lines) IN
  /\ eventsFile.pending # <<>>
  /\ eventsFile' =
       [eventsFile EXCEPT
          !.bytes = @ \o eventsFile.pending,
          !.pending = <<>>,
          !.lines[k].whole = eventsFile.lines[k].epoch = eventsFile.epoch]
  /\ UNCHANGED <<sessions, cfg, workspaceLocks, resolved, run, br, listeners, store,
                 hooksEmitted, clock, inbox>>

\* HookInbox.start: the offset becomes the size of the file, the watcher and
\* the poll timer are created (fs.watch may throw: then polling alone)
InboxStart(watchOk) ==
  /\ ~Running
  /\ inbox.gen < cfg.starts
  /\ inbox' = [inbox EXCEPT
                 !.stopped = FALSE,
                 !.offset = startOffset(Len(eventsFile.bytes)),
                 !.watcher = watchOk,
                 !.pollTimer = TRUE,
                 !.gen = @ + 1,
                 !.seen = Append(@, Len(SelectSeq(eventsFile.lines,
                             LAMBDA x : x.whole
                                         /\ x.epoch = eventsFile.epoch)))]
  /\ UNCHANGED <<sessions, cfg, workspaceLocks, resolved, run, br, listeners, store,
                 hooksEmitted, clock, eventsFile>>

\* HookInbox.stop: close the watcher, clear the timer, truncate the file and
\* reset offset and leftover
InboxStop ==
  /\ Running
  /\ inbox' = stop(inbox)
  /\ eventsFile' = [eventsFile EXCEPT !.bytes = <<>>, !.epoch = @ + 1]
  /\ UNCHANGED <<sessions, cfg, workspaceLocks, resolved, run, br, listeners, store,
                 hooksEmitted, clock>>

\* what a call of readNewLines does to the inbox, the runs and the store
Read ==
  LET res == readNewLines(inbox, eventsFile.bytes, run, store, listeners,
                          clock)
  IN /\ inbox' = res.inbox
     /\ run' = res.run
     /\ store' = res.store
     /\ UNCHANGED <<sessions, cfg, workspaceLocks, resolved, br, listeners,
                    hooksEmitted, clock, eventsFile>>

\* the callback of fs.watch: the file changed (or the watcher says so)
Notify ==
  /\ MicrotaskQueueEmpty
  /\ inbox.watcher
  /\ Read

\* a callback of the watcher that was queued before stop runs after it
LateNotify ==
  LET res == readNewLines(inbox, eventsFile.bytes, run, store, listeners,
                          clock)
  IN /\ inbox.stopped
     /\ inbox' = [res.inbox EXCEPT !.late = TRUE]
     /\ run' = res.run
     /\ store' = res.store
     /\ UNCHANGED <<sessions, cfg, workspaceLocks, resolved, br, listeners,
                    hooksEmitted, clock, eventsFile>>

\* a callback of the poll timer that was queued before stop runs after it
LatePoll ==
  LET res == poll(inbox, eventsFile.bytes, run, store, listeners, clock)
  IN /\ inbox.stopped
     /\ inbox' = [res.inbox EXCEPT !.late = TRUE]
     /\ run' = res.run
     /\ store' = res.store
     /\ UNCHANGED <<sessions, cfg, workspaceLocks, resolved, br, listeners,
                    hooksEmitted, clock, eventsFile>>

\* the poll interval fires
PollTick ==
  LET res == poll(inbox, eventsFile.bytes, run, store, listeners, clock)
  IN /\ MicrotaskQueueEmpty
     /\ inbox.pollTimer
     /\ inbox' = res.inbox
     /\ run' = res.run
     /\ store' = res.store
     /\ UNCHANGED <<sessions, cfg, workspaceLocks, resolved, br, listeners,
                    hooksEmitted, clock, eventsFile>>


\* -------------------------------------------------------- Event Store calls
\* the values of the Date.now() calls of one operation: the clock does not
\* go back and advances by at most one millisecond between two reads
Times(c, n) ==
  {t \in [1..n -> {c, c + 1}] :
     /\ t[n] <= cfg.maxClock
     /\ \A i \in 1..(n - 1) : t[i] <= t[i + 1]}

\* a call from outside enters the store
Entered(st, op) == [st EXCEPT !.lastOp = op, !.saved = FALSE]

Appended == store.calls["sA"].stream + store.calls["sA"].hook
            + store.calls["sB"].stream + store.calls["sB"].hook

StoreEnsure(sid, m, t) ==
  /\ store' = ensureSession(Entered(store, "ensureSession"), sid, m, t[1])
  /\ clock' = t[1]
  /\ UNCHANGED <<sessions, cfg, workspaceLocks, resolved, run, br, listeners,
                 hooksEmitted, eventsFile, inbox>>

StoreAppendStream(sid, ev, t) ==
  /\ Appended < cfg.appends
  /\ store' = [appendStreamEventAt(Entered(store, "append"), sid, ev, t, 0)
                 EXCEPT !.calls[sid].stream = @ + 1]
  /\ clock' = t[4]
  /\ UNCHANGED <<sessions, cfg, workspaceLocks, resolved, run, br, listeners,
                 hooksEmitted, eventsFile, inbox>>

StoreAppendHook(sid, hookType, t) ==
  /\ Appended < cfg.appends
  /\ store' = [appendHookEventAt(Entered(store, "append"), sid, hookType, sid,
                                   t, 0, sid)
                 EXCEPT !.calls[sid].hook = @ + 1]
  /\ clock' = t[4]
  /\ UNCHANGED <<sessions, cfg, workspaceLocks, resolved, run, br, listeners,
                 hooksEmitted, eventsFile, inbox>>

StoreUpdateMeta(sid, u, t) ==
  /\ store' = updateSessionMeta(Entered(store, "updateSessionMeta"), sid, u,
                                t[1])
  /\ clock' = t[1]
  /\ UNCHANGED <<sessions, cfg, workspaceLocks, resolved, run, br, listeners,
                 hooksEmitted, eventsFile, inbox>>

StoreFlush ==
  /\ store' = flush(Entered(store, "flush"))
  /\ UNCHANGED <<sessions, cfg, workspaceLocks, resolved, run, br, listeners,
                 hooksEmitted, clock, eventsFile, inbox>>

\* the debounce timer of markIndexDirty fires
FlushTimer ==
  /\ MicrotaskQueueEmpty
  /\ store.timers > 0
  /\ store' = flushTimerFired(Entered(store, "timer"))
  /\ UNCHANGED <<sessions, cfg, workspaceLocks, resolved, run, br, listeners,
                 hooksEmitted, clock, eventsFile, inbox>>

\* the process ends (what the debounce timer had not written is lost) and a
\* new EventStore is constructed over the same directory, with index.json
\* deleted before or not
StoreReopen(deleted) ==
  /\ store.instance < cfg.instances
  /\ store' = newEventStore(
                 IF deleted
                   THEN [Entered(store, "rebuild") EXCEPT
                           !.indexFile = NoIndexFile]
                   ELSE Entered(store, "reopen"))
  /\ UNCHANGED <<sessions, cfg, workspaceLocks, resolved, run, br, listeners,
                 hooksEmitted, clock, eventsFile, inbox>>

\* ------------------------------------------------------------ command calls
\* a command arrives and its handler runs up to its first await
Command(handled) ==
  /\ Len(sessions.calls) < cfg.commands
  /\ sessions' = handled
  /\ UNCHANGED <<cfg, workspaceLocks, resolved, run, br, listeners, store,
                 hooksEmitted, clock, eventsFile, inbox>>

CmdPlan(w) == Command(ccPlan(sessions, w))

CmdExecute(w) == Command(ccExecute(sessions, w))

CmdSend(w) == Command(ccSend(sessions, w))

CmdReset(w) == Command(ccReset(sessions, w))

\* runManager.execute returns to the handler of call i
RunReturned(i, sid) ==
  /\ i \in DOMAIN sessions.calls
  /\ Foremost(sessions, i)
  /\ sessions' = [afterRun(sessions, sessions.calls[i], sid)
                    EXCEPT !.calls[i].state = "ok"]
  /\ UNCHANGED <<cfg, workspaceLocks, resolved, run, br, listeners, store,
                 hooksEmitted, clock, eventsFile, inbox>>

\* runManager.execute throws in the handler of call i
RunFailed(i) ==
  /\ i \in DOMAIN sessions.calls
  /\ Foremost(sessions, i)
  /\ sessions' = [afterError(sessions, sessions.calls[i])
                    EXCEPT !.calls[i].state = "failed"]
  /\ UNCHANGED <<cfg, workspaceLocks, resolved, run, br, listeners, store,
                 hooksEmitted, clock, eventsFile, inbox>>

\* ----------------------------------------------------------- specifications
InitWith(cfgs) ==
  /\ cfg \in cfgs
  /\ workspaceLocks = [w \in Workspaces |-> 0]
  /\ resolved = {}
  /\ run = [r \in Runs |-> NewRun]
  /\ br = [r \in Runs |-> NewBridge]
  /\ listeners = [k \in HookTypes |-> <<>>]
  /\ store = EmptyStore
  /\ hooksEmitted = 0
  /\ clock = 0
  /\ eventsFile = NewEventsFile
  /\ inbox = NewInbox
  /\ sessions = NewSessions

\* the options of the bridge, and what the environment of a specification
\* may do: how many execute calls, with which session ids, which lines the
\* children write and which hook events are emitted
Cfg(retries, runs, lines, hooks, sids, events, hookEvents, codes) ==
  [maxTimeoutRetries |-> retries, runs |-> runs, lines |-> lines,
   hooks |-> hooks, sids |-> sids, events |-> events,
   hookEvents |-> hookEvents, codes |-> codes]

HookEvent(hookType, sid) == [type |-> hookType, session_id |-> sid]

HookEvents == {HookEvent(k, s) : k \in HookTypes, s \in SessionIds \cup {None}}

\* Spec: the coordination of several execute calls.  The children only
\* write a result line, so a run ends by result, by exit without result, by
\* spawn failure or by timeout (retried when the caller gave a session id)
Init ==
  InitWith({Cfg(MaxRetries, MaxRuns, MaxLines, MaxHooks, {None, "sA"},
                {StreamEvent("result", "sA", None)},
                {HookEvent("tool-use", "sA")}, {0})})

BridgeStep(r) ==
  \/ \E ev \in cfg.events : Line(r, ev)
  \/ Timeout(r)
  \/ \E code \in cfg.codes : Close(r, code)
  \/ SpawnError(r)
  \/ SendSettled(r)

RunStep(r) ==
  \/ Acquire(r)
  \/ GraceElapsed(r)
  \/ ExecuteFinally(r)

Next ==
  \/ \E w \in Workspaces, sid \in cfg.sids : Execute(w, sid)
  \/ \E r \in Runs : RunStep(r)
  \/ \E r \in Runs : BridgeStep(r)
  \/ \E e \in cfg.hookEvents : EmitHook(e.type, e.session_id)

Spec == Init /\ [][Next]_vars

\* SpecSend: one bridge.send call with every kind of line and every setting
\* of maxTimeoutRetries up to SendMaxRetries; no hook events
InitSend ==
  InitWith({Cfg(n, 1, SendMaxLines, 0, {None, "sA"}, StreamEvents, {},
                ExitCodes)
            : n \in 0..SendMaxRetries})

NextSend ==
  \/ \E w \in Workspaces, sid \in cfg.sids : Execute(w, sid)
  \/ \E r \in Runs : RunStep(r)
  \/ \E r \in Runs : BridgeStep(r)

SpecSend == InitSend /\ [][NextSend]_vars

\* SpecSendNew: SpecSend for new conversations only: the caller supplies no
\* session id, so the run's session is the one the agent assigns
InitSendNew ==
  InitWith({Cfg(n, 1, SendMaxLines, 0, {None}, StreamEvents, {}, ExitCodes)
            : n \in 0..SendMaxRetries})

SpecSendNew == InitSendNew /\ [][NextSend]_vars

\* SpecSendThrow: one run whose Event Store writes can fail
InitSendThrow ==
  InitWith({Cfg(0, 1, ThrowLines, 0, {None, "sA"},
                {StreamEvent("system", "sA", None),
                 StreamEvent("assistant", None, "text"),
                 StreamEvent("result", "sA", None)}, {}, ExitCodes)})

NextSendThrow ==
  \/ NextSend
  \/ \E r \in Runs, ev \in cfg.events : LineThrows(r, ev)

SpecSendThrow == InitSendThrow /\ [][NextSendThrow]_vars

\* SpecCorr: the correlation of the two channels: two calls, system lines
\* with either id, and every hook event
InitCorr ==
  InitWith({Cfg(0, CorrRuns, CorrLines, CorrHooks, {None, "sA"},
                {StreamEvent("system", s, None) : s \in SessionIds}
                  \cup {StreamEvent("result", None, None)},
                HookEvents, {0})})

SpecCorr == InitCorr /\ [][Next]_vars

\* SpecPlan: the commands of one sender in any order, each handler waiting
\* for its run while other commands are handled
PlanCfg(c, commands) == c @@ [commands |-> commands]

InitPlan ==
  InitWith({PlanCfg(Cfg(0, 0, 0, 0, {"sA"}, {}, {}, {}), PlanCommands)})

NextPlan ==
  \/ \E w \in Workspaces : CmdPlan(w)
  \/ \E w \in Workspaces : CmdExecute(w)
  \/ \E w \in Workspaces : CmdSend(w)
  \/ \E w \in Workspaces : CmdReset(w)
  \/ \E i \in 1..PlanCommands, sid \in cfg.sids : RunReturned(i, sid)
  \/ \E i \in 1..PlanCommands : RunFailed(i)

SpecPlan == InitPlan /\ [][NextPlan]_vars

\* SpecGrace: one run from its start to its return, with a system line and
\* a result line, and hook events of its own and of another session emitted
\* at any time, also between the return of send and the end of the grace
\* period
InitGrace ==
  InitWith({Cfg(0, 1, GraceLines, GraceHooks, {None},
                {StreamEvent("system", "sA", None),
                 StreamEvent("result", None, None)},
                {HookEvent(k, "sA") : k \in HookTypes}
                  \cup {HookEvent("tool-use", "sB")}, {0})})

SpecGrace == InitGrace /\ [][Next]_vars

\* SpecInbox: the Hook Inbox alone: hook commands append lines, whole or in
\* two chunks, while the inbox is started, notified, polled and stopped
InboxLines ==
  {HookLine("PostToolUse", "sA", <<"a">>),
   HookLine("PostToolUse", "sA", <<TwoByteChar>>),
   HookLine("Other", "sA", <<>>)}

InboxCfg(c, hookLines, appends, starts) ==
  c @@ [hookLines |-> hookLines, appends |-> appends, starts |-> starts]

InitInbox ==
  InitWith({InboxCfg(Cfg(0, 0, 0, 0, {}, {}, {}, {}), InboxLines,
                     InboxAppends, InboxStarts)})

NextInbox ==
  \/ \E l \in cfg.hookLines, n \in 1..MaxLineBytes : WriteLine(l, n)
  \/ WriteRest
  \/ \E watchOk \in BOOLEAN : InboxStart(watchOk)
  \/ InboxStop
  \/ Notify
  \/ PollTick

SpecInbox == InitInbox /\ [][NextInbox]_vars

\* SpecInboxLive: the Hook Inbox with the scheduling of its poll timer.
\* setInterval: while the timer is set, its callback runs again and again;
\* nothing is assumed about the notifications of fs.watch
InitInboxLive ==
  InitWith({InboxCfg(Cfg(0, 0, 0, 0, {}, {}, {}, {}),
                     {HookLine("PostToolUse", "sA", <<"a">>)},
                     InboxAppends, InboxStarts)})

SpecInboxLive == InitInboxLive /\ [][NextInbox]_vars /\ WF_vars(PollTick)

\* SpecInboxStop: the Hook Inbox with callbacks that run after stop
NextInboxStop ==
  \/ NextInbox
  \/ LateNotify
  \/ LatePoll

SpecInboxStop == InitInboxLive /\ [][NextInboxStop]_vars

\* SpecInboxBad: the Hook Inbox with lines that are no hook records: a line
\* JSON.parse rejects, the JSON text null, an object without discriminator
\* and one with an unknown discriminator, next to a well-formed line
BadLines ==
  {HookLine("PostToolUse", "sA", <<"a">>),
   HookLine("Other", "sA", <<>>),
   HookLine(None, "sA", <<>>),
   HookLine(Garbled, "sA", <<>>),
   HookLine(NullLiteral, None, <<>>)}

InitInboxBad ==
  InitWith({InboxCfg(Cfg(0, 0, 0, 0, {}, {}, {}, {}), BadLines,
                     BadAppends, 1)})

SpecInboxBad == InitInboxBad /\ [][NextInbox]_vars

\* SpecStore: the Event Store alone, called in any order, with the clock
\* advancing between and inside the calls, and re-created over its files
StoreCfg(c, appends, instances, maxClock, metas, updates) ==
  c @@ [appends |-> appends, instances |-> instances, maxClock |-> maxClock,
        metas |-> metas, updates |-> updates]

InitStore ==
  InitWith({StoreCfg(Cfg(0, 0, 0, 0, {"sA"}, {}, {}, {}),
                     StoreAppends, StoreInstances, StoreMaxClock,
                     {NoUpdates, Updates("w1", "prompt", Absent)},
                     {Updates(Absent, Absent, "set")})})

NextStore ==
  \/ \E sid \in cfg.sids, m \in cfg.metas, t \in Times(clock, 1) :
       StoreEnsure(sid, m, t)
  \/ \E sid \in cfg.sids, t \in Times(clock, 4) :
       StoreAppendStream(sid, StreamEvent("assistant", None, "text"), t)
  \/ \E sid \in cfg.sids, t \in Times(clock, 4) :
       StoreAppendHook(sid, "tool-use", t)
  \/ \E sid \in cfg.sids, u \in cfg.updates, t \in Times(clock, 1) :
       StoreUpdateMeta(sid, u, t)
  \/ StoreFlush
  \/ FlushTimer
  \/ \E deleted \in BOOLEAN : StoreReopen(deleted)

SpecStore == InitStore /\ [][NextStore]_vars

\* SpecStoreLive: the Event Store with the scheduling of its debounce
\* timer: a pending setTimeout callback runs
InitStoreLive ==
  InitWith({StoreCfg(Cfg(0, 0, 0, 0, {"sA"}, {}, {}, {}),
                     LiveAppends, StoreInstances, StoreMaxClock,
                     {NoUpdates, Updates("w1", "prompt", Absent)},
                     {Updates(Absent, Absent, "set")})})

SpecStoreLive == InitStoreLive /\ [][NextStore]_vars /\ WF_vars(FlushTimer)

\* SpecStoreMeta: the Event Store called with several metadata values for
\* one session: two first prompts and two workspaces
InitStoreMeta ==
  InitWith({StoreCfg(Cfg(0, 0, 0, 0, {"sA"}, {}, {}, {}),
                     MetaAppends, StoreInstances, StoreMaxClock,
                     {NoUpdates, Updates("w1", "prompt", Absent),
                      Updates("w1", "prompt2", Absent)},
                     {Updates(Absent, Absent, "set"),
                      Updates("w2", Absent, Absent)})})

SpecStoreMeta == InitStoreMeta /\ [][NextStore]_vars

\* SpecStoreCrash: the Event Store with two sessions, so that the process
\* can end after index.json was written for one and before it is written
\* for the other
InitStoreCrash ==
  InitWith({StoreCfg(Cfg(0, 0, 0, 0, {"sA", "sB"}, {}, {}, {}),
                     CrashAppends, StoreInstances, CrashMaxClock,
                     {NoUpdates}, {Updates(Absent, Absent, "set")})})

SpecStoreCrash == InitStoreCrash /\ [][NextStore]_vars

\* the scheduling of the event loop: queued continuations run, pending
\* timers fire, and every child ends (by close, by spawn error or by the
\* deadline timer that kills it)
Fairness ==
  \A r \in Runs :
    /\ WF_vars(Acquire(r))
    /\ WF_vars(SendSettled(r))
    /\ WF_vars(GraceElapsed(r))
    /\ WF_vars(ExecuteFinally(r))
    /\ WF_vars(Timeout(r) \/ (\E code \in cfg.codes : Close(r, code))
                  \/ SpawnError(r))

FairSpec == Spec /\ Fairness

\* ------------------------------------------------------------------- claims
Called(r) == run[r].pc # "new"

\* past slot acquisition and not yet out of executeInner
Active(r) == run[r].pc \in {"sending", "settled", "grace"}

Started(r) == run[r].pc \notin {"new", "waiting"}

SameWorkspace(r1, r2) ==
  Called(r1) /\ Called(r2) /\ run[r1].workspace = run[r2].workspace

Subscribed(r) == \E k \in HookTypes : \E i \in DOMAIN listeners[k] :
                    listeners[k][i] = r

\* C1: two runs of the same workspace are never both past slot acquisition
\* (hook handlers registered or subprocess running): a later call is still
\* waiting until the earlier call of that workspace has completely finished.
C1_SameWorkspaceExclusive ==
  \A r1, r2 \in Runs :
    r1 < r2 /\ SameWorkspace(r1, r2) =>
      /\ Started(r2) => run[r1].pc = "done"
      /\ ~(Active(r1) /\ Active(r2))
      /\ ~(Subscribed(r1) /\ Subscribed(r2))
      /\ ~(br[r1].child = "running" /\ br[r2].child = "running")

C1_Witness ==
  \E r1, r2 \in Runs :
    /\ r1 < r2 /\ SameWorkspace(r1, r2)
    /\ run[r2].prev = r1
    /\ run[r1].pc = "done"
    /\ run[r2].pc = "sending" /\ Subscribed(r2)

\* C2 (as stated): the subprocess of a later call of the same workspace is
\* not started before the earlier call's subprocess has completed and the
\* earlier call's grace period has elapsed.
C2_Original ==
  \A r1, r2 \in Runs :
    r1 < r2 /\ SameWorkspace(r1, r2) /\ Started(r2) =>
      run[r1].pc = "done" /\ run[r1].graceElapsed

\* C2 (amended): the later call's subprocess is not started before the
\* earlier call has ended; when the earlier call returned a response its
\* grace period has elapsed, and when its bridge call raised an error there
\* was no grace period at all.
C2_StartAfterEarlierEnded ==
  \A r1, r2 \in Runs :
    r1 < r2 /\ SameWorkspace(r1, r2) /\ Started(r2) =>
      /\ run[r1].pc = "done"
      /\ run[r1].outcome = "ok" <=> run[r1].graceElapsed

C2_Witness ==
  \E r1, r2 \in Runs :
    /\ r1 < r2 /\ SameWorkspace(r1, r2)
    /\ run[r1].outcome = "ok" /\ run[r1].graceElapsed
    /\ br[r2].child = "running"

\* C3: calls for different workspaces never wait on each other: the lock a
\* call awaits is one of its own workspace, and a waiting call whose earlier
\* calls of the same workspace are all finished can take the slot whatever
\* the calls of the other workspaces are doing.
C3_WorkspacesIndependent ==
  \A r \in Runs :
    /\ Called(r) /\ run[r].prev # 0 => SameWorkspace(run[r].prev, r)
    /\ ( /\ run[r].pc = "waiting"
         /\ \A q \in Runs : q < r /\ SameWorkspace(q, r) => run[q].pc = "done" )
       => ENABLED Acquire(r)

C3_Witness ==
  \E r1, r2 \in Runs :
    /\ Called(r1) /\ Called(r2)
    /\ run[r1].workspace # run[r2].workspace
    /\ br[r1].child = "running" /\ br[r2].child = "running"

\* C4: the slot is released on every exit path: every call queued behind a
\* run, whether that run returns or fails, eventually starts its own run,
\* and a queued call leaves the queue only by starting its own run.
C4_QueuedEventuallyStarts ==
  /\ \A r \in Runs : (run[r].pc = "waiting") ~> Started(r)
  /\ [][\A r \in Runs : run[r].pc = "waiting" =>
           run'[r].pc \in {"waiting", "sending"}]_vars

C4_Witness ==
  \E r1, r2 \in Runs :
    /\ r1 < r2 /\ SameWorkspace(r1, r2)
    /\ run[r2].prev = r1
    /\ run[r1].pc = "done" /\ run[r1].outcome \notin {None, "ok"}
    /\ Started(r2)

\* C5: when execute finishes, by return or by error, none of the handlers
\* the run registered is still subscribed: each kind has exactly one
\* listener per run inside executeInner, and a run whose result or error is
\* on its way to the caller has none.
C5_ListenersReleased ==
  /\ \A r \in Runs : run[r].pc \in {"innerDone", "done"} => ~Subscribed(r)
  /\ \A k \in HookTypes :
       Len(listeners[k]) = Cardinality({r \in Runs : Active(r)})

C5_Witness ==
  \E r \in Runs :
    /\ run[r].pc = "innerDone"
    /\ run[r].outcome = "timeout"
    /\ \E q \in Runs : q # r /\ Subscribed(q)

\* the run's session for the bridge: the id the caller supplied, or else the
\* id the agent assigned to the run (its first system line)
RunSession(r) ==
  IF run[r].sessionId # None THEN run[r].sessionId
  ELSE run[r].streamSessionId

InExecuteInner(rr) == rr.pc \in {"sending", "settled", "grace", "innerDone"}

\* C6: within one run the id used to accept hook events and to tag persisted
\* events, once established (by the first system line or the first
\* session-start hook), stays the same until the run ends.
C6_OwnIdImmutable ==
  [][\A r \in Runs :
       Own(run[r]) # None /\ InExecuteInner(run'[r]) =>
         Own(run'[r]) = Own(run[r])]_vars

\* C7: a hook event whose session id differs from the run's established id
\* causes no Event Store write and no entry in the run's activity lists.
C7_ForeignHookIgnored ==
  /\ \A s \in SessionIds : \A i \in DOMAIN store.hooks[s] :
       LET e == store.hooks[s][i] IN
       e.own # None /\ e.session_id # None => e.session_id = e.own /\ s = e.own
  /\ \A r \in Runs :
       \A i \in DOMAIN run[r].hookActivities :
         run[r].hookActivities[i].session_id \in {None, Own(run[r])}

\* C8: with a known session id and maximum N, a send whose first k attempts
\* time out succeeds after exactly k+1 attempts with retry count k when
\* k <= N, and fails with the timeout after exactly N+1 attempts otherwise.
C8_RetryCount ==
  \A r \in Runs :
    /\ run[r].response.present /\ InExecuteInner(run[r]) =>
         /\ br[r].timeouts <= cfg.maxTimeoutRetries
         /\ Len(br[r].spawns) = br[r].timeouts + 1
         /\ run[r].response.retryCount = br[r].timeouts
    /\ run[r].pc = "innerDone" /\ run[r].outcome = "timeout"
       /\ resumeId(br[r]) # None =>
         /\ br[r].timeouts = cfg.maxTimeoutRetries + 1
         /\ Len(br[r].spawns) = cfg.maxTimeoutRetries + 1

C8_Witness ==
  \E r \in Runs :
    /\ cfg.maxTimeoutRetries = 2
    /\ run[r].pc = "grace"
    /\ br[r].timeouts = 2
    /\ run[r].response.retryCount = 2

\* C9: every retry attempt of one send resumes the run's session (the id the
\* caller supplied, or else the id the agent assigned to the run) with the
\* fixed continuation prompt, also when the timed-out attempt wrote system
\* lines with different ids.
C9_RetryResumesRunSession ==
  \A r \in Runs : \A i \in DOMAIN br[r].spawns :
    i >= 2 => /\ br[r].spawns[i].prompt = "Continue."
              /\ br[r].spawns[i].resume = RunSession(r)

\* C10: a timeout with no known session id ends send with that timeout at
\* once, even when retries remain: only the first attempt was spawned, and
\* no attempt is ever spawned as a retry without a resume id.
C10_NoResumeNoRetry ==
  \A r \in Runs :
    /\ run[r].pc = "innerDone" /\ run[r].outcome = "timeout"
       /\ resumeId(br[r]) = None =>
         Len(br[r].spawns) = 1 /\ br[r].timeouts = 1
    /\ br[r].settle = "timeout" /\ resumeId(br[r]) = None =>
         run[r].pc \in {"settled", "innerDone"}
    /\ \A i \in DOMAIN br[r].spawns : i >= 2 => br[r].spawns[i].resume # None

C10_Witness ==
  \E r \in Runs :
    /\ cfg.maxTimeoutRetries >= 1
    /\ run[r].pc = "innerDone" /\ run[r].outcome = "timeout"
    /\ run[r].sessionId = None /\ br[r].errSessionId = None
    /\ Len(br[r].spawns) = 1

\* C11: only timeouts are retried: a spawn failure, or an exit without a
\* result event, ends send with that error in the attempt where it happens,
\* whatever the maximum of retries: no attempt is spawned after it (exactly
\* one attempt when it is the first), and the error is not the timeout.
C11_OnlyTimeoutsRetried ==
  \A r \in Runs :
    /\ br[r].settle \in {"spawnfail", "noresult"} =>
         /\ run[r].pc \in {"settled", "innerDone"}
         /\ br[r].child = "closed"
         /\ Len(br[r].spawns) = br[r].timeouts + 1
    /\ run[r].pc = "innerDone" /\ run[r].outcome # "ok" /\ br[r].timeouts = 0 =>
         /\ run[r].outcome \in {"spawnfail", "noresult"}
         /\ Len(br[r].spawns) = 1

C11_Witness ==
  \E r \in Runs :
    /\ cfg.maxTimeoutRetries = SendMaxRetries
    /\ run[r].sessionId # None
    /\ run[r].pc = "innerDone"
    /\ run[r].outcome \in {"spawnfail", "noresult"}
    /\ Len(br[r].spawns) = 1

\* C12: an attempt succeeds if and only if a result event was parsed from
\* the output of its subprocess: once a result event has been seen the
\* attempt succeeds, whatever the exit code, and an attempt without a result
\* event fails, even with exit code 0.
C12_SuccessIffResultSeen ==
  \A r \in Runs :
    br[r].settle # "pending" =>
      (br[r].settle = "resolved" <=> br[r].resultEvent.seen)

\* C13: the deadline timer raises the timeout only if no result event has
\* arrived; when it fires the subprocess is killed and the error carries the
\* last session id known to the attempt; the timer never fires once the
\* attempt has completed.
C13_TimeoutOnlyWithoutResult ==
  \A r \in Runs :
    /\ br[r].settle = "timeout" =>
         /\ ~br[r].resultEvent.seen
         /\ br[r].child = "killed"
         /\ br[r].errSessionId = br[r].sessionId
    /\ br[r].settle \in {"resolved", "noresult", "spawnfail"} =>
         ~ENABLED Timeout(r)

\* the lines of the hook log, by serial number
LineNumbers == DOMAIN eventsFile.lines

\* a line the inbox has to emit: complete, well-formed, of a known kind
Emittable(k) ==
  /\ eventsFile.lines[k].whole
  /\ eventsFile.lines[k].line.name \in HookNames

\* line k was appended in the current watch session, to the file as it is
\* now, and the inbox has read past its end
Consumed(k) ==
  /\ Running
  /\ eventsFile.lines[k].gen = inbox.gen
  /\ eventsFile.lines[k].epoch = eventsFile.epoch
  /\ eventsFile.lines[k].end <= inbox.offset

EventsOf(k) ==
  {i \in DOMAIN inbox.emitted : inbox.emitted[i].serial = Serial(k)}

\* C14: a line written in two chunks, split at any position inside the line,
\* with any reads between and after the chunks, is emitted exactly once and
\* with its fully reassembled content.
C14_TwoChunksOneEvent ==
  \A k \in LineNumbers :
    eventsFile.lines[k].split > 0 /\ Emittable(k) /\ Consumed(k) =>
      /\ Cardinality(EventsOf(k)) = 1
      /\ \A i \in EventsOf(k) :
           /\ inbox.emitted[i].text = eventsFile.lines[k].line.text
           /\ inbox.emitted[i].session_id = eventsFile.lines[k].line.session_id
           /\ inbox.emitted[i].type =
                HOOK_EVENT_MAP(eventsFile.lines[k].line.name)

\* C15: a watch session never emits a line that was already in the log when
\* its start captured the baseline offset.
C15_NoStaleLines ==
  \A i \in DOMAIN inbox.emitted :
    \A k \in LineNumbers :
      inbox.emitted[i].serial = Serial(k) =>
        k > inbox.seen[inbox.emitted[i].gen]

C15_Witness ==
  /\ inbox.gen = 2 /\ Running
  /\ inbox.seen[2] >= 1
  /\ \E i \in DOMAIN inbox.emitted : inbox.emitted[i].gen = 2

\* C16: whatever the interleaving of notifications and poll ticks with the
\* appends, each complete well-formed line appended while the inbox is
\* running is emitted exactly once and in file order, and a read with no
\* new bytes emits nothing and changes no state.
C16_ReadIdempotent ==
  /\ [](\A i, j \in DOMAIN inbox.emitted :
          i < j => \E k1, k2 \in LineNumbers :
                     /\ k1 < k2
                     /\ inbox.emitted[i].serial = Serial(k1)
                     /\ inbox.emitted[j].serial = Serial(k2))
  /\ [](\A k \in LineNumbers :
          Emittable(k) /\ Consumed(k) => Cardinality(EventsOf(k)) = 1)
  /\ [][Len(eventsFile.bytes) <= inbox.offset
          /\ eventsFile' = eventsFile
          /\ inbox'.gen = inbox.gen /\ inbox'.stopped = inbox.stopped
        => inbox' = inbox /\ run' = run /\ store' = store]_vars

C16_Witness ==
  /\ Running
  /\ Len(inbox.emitted) = 2
  /\ inbox.emitted[1].gen = inbox.gen /\ inbox.emitted[2].gen = inbox.gen
  /\ eventsFile.lines[1].split > 0
  /\ inbox.offset = Len(eventsFile.bytes)

\* the sequence numbers of a log go up by one from record to record
NoGaps(log) == \A i \in 1..(Len(log) - 1) : log[i + 1].seq = log[i].seq + 1

\* C17: K protocol events and M hook events appended in any interleaving to
\* a fresh session are read back as exactly K and M records, in append
\* order, with sequence numbers 1..K and 1..M.
C17_ReadBack ==
  store.instance = 1 =>
    \A sid \in SessionIds :
      LET ps == readJsonl(store.stream[sid])
          hs == readJsonl(store.hooks[sid])
      IN /\ Len(ps) = store.calls[sid].stream
         /\ Len(hs) = store.calls[sid].hook
         /\ \A i \in DOMAIN ps : ps[i].seq = i
         /\ \A i \in DOMAIN hs : hs[i].seq = i
         /\ \A i, j \in DOMAIN ps : i < j => ps[i].ts <= ps[j].ts
         /\ \A i, j \in DOMAIN hs : i < j => hs[i].ts <= hs[j].ts

C17_Witness ==
  /\ store.instance = 1
  /\ store.calls["sA"].stream = 2 /\ store.calls["sA"].hook = 1
  /\ Len(readJsonl(store.stream["sA"])) = 2
  /\ Len(readJsonl(store.hooks["sA"])) = 1

\* C18: in every reachable state the records of each per-session log carry
\* strictly increasing sequence numbers with no gaps, also for a log that an
\* Event Store created over the data of an earlier instance appends to.
C18_SeqNoGaps ==
  \A sid \in SessionIds :
    /\ NoGaps(store.stream[sid])
    /\ NoGaps(store.hooks[sid])

\* C19: after any sequence of ensureSession, append and updateSessionMeta
\* followed by flush, deleting the index file and constructing a new Event
\* Store gives an index with the same session ids and, for each id, the
\* same created and last-updated timestamps.
C19_RebuildSameIndex ==
  [][store.instance = 1 /\ store.lastOp = "flush"
       /\ store'.lastOp = "rebuild"
     => /\ DOMAIN store'.index = DOMAIN store.index
        /\ \A s \in DOMAIN store.index :
             /\ store'.index[s].createdAt = store.index[s].createdAt
             /\ store'.index[s].lastUpdatedAt = store.index[s].lastUpdatedAt
    ]_vars

\* C20: when flush returns the index file holds exactly the entries of the
\* in-memory index, the dirty flag is clear and no debounce timer is
\* pending; a flush with nothing dirty writes nothing.
C20_FlushDurable ==
  /\ [](store.lastOp = "flush" =>
          /\ store.indexFile.entries = store.index
          /\ ~store.indexDirty
          /\ ~store.flushTimer)
  /\ [][store'.lastOp = "flush" /\ store' # store /\ ~store.indexDirty
        => ~store'.saved /\ store'.indexFile = store.indexFile]_vars

C20_Witness ==
  /\ store.lastOp = "flush"
  /\ store.saved
  /\ store.indexFile.exists
  /\ DOMAIN store.index # {}
  /\ store.index["sA"].lastUpdatedAt > store.index["sA"].createdAt

\* the runs that wrote a record to a log of session s
Writers(s) ==
  {store.stream[s][i].by : i \in DOMAIN store.stream[s]}
  \cup {store.hooks[s][i].by : i \in DOMAIN store.hooks[s]}

\* C21: no session has records in its logs written by two runs that are
\* active at the same time (a run writes only while it is active), also when
\* the two runs are of different workspaces and share the Hook Inbox.
C21_OneWriterPerSession ==
  \A s \in SessionIds :
    \A r1, r2 \in Runs :
      r1 # r2 /\ Active(r1) /\ Active(r2) => ~({r1, r2} \subseteq Writers(s))

\* the kinds of the lines the children of run r wrote, in order
KindsWritten(r) == [i \in DOMAIN br[r].lines |-> br[r].lines[i].ev.type]

\* the kinds of the protocol records of session s, in file order
KindsStored(s) == [i \in DOMAIN store.stream[s] |-> store.stream[s][i].type]

\* C22: the first attempt of a run gets a resume argument exactly when the
\* caller supplied a session id (none for a run with no prior session); and
\* when the protocol of such a run emits a system event with id S, one
\* assistant event and one result event, the Event Store holds for S exactly
\* these three protocol records, one of them of kind result, and nothing for
\* any other session.
C22_NewSessionPersisted ==
  \A r \in Runs :
    /\ br[r].spawns # <<>> => br[r].spawns[1].resume = run[r].sessionId
    /\ run[r].sessionId = None
       /\ KindsWritten(r) = <<"system", "assistant", "result">> =>
         LET S == br[r].lines[1].ev.session_id IN
         /\ KindsStored(S) = <<"system", "assistant", "result">>
         /\ Cardinality({i \in DOMAIN store.stream[S] :
                           store.stream[S][i].type = "result"}) = 1
         /\ \A s \in SessionIds \ {S} : store.stream[s] = <<>>

C22_Witness ==
  \E r \in Runs :
    /\ run[r].sessionId = None
    /\ br[r].spawns = <<buildArgs("prompt", None)>>
    /\ KindsWritten(r) = <<"system", "assistant", "result">>
    /\ br[r].lines[1].ev.session_id = "sA"
    /\ run[r].pc = "grace"
    /\ Len(store.stream["sA"]) = 3

\* what decides the outcome of an attempt and what it reports
Outcome(b) ==
  [b EXCEPT !.lines = <<>>, !.linesLeft = 0, !.started = FALSE]

\* C24: a line of the subprocess that cannot be parsed triggers no callback
\* (nothing changes in the run or in the Event Store) and leaves everything
\* that decides the attempt's outcome as it was: the attempt goes on as if
\* the line had not been written.
C24_JunkLineSkipped ==
  [][\A r \in Runs :
       Line(r, StreamEvent("junk", None, None)) =>
         /\ run' = run
         /\ store' = store
         /\ Outcome(br'[r]) = Outcome(br[r])
         /\ run'[r].pc = "sending" /\ br'[r].child = "running"]_vars

C24_Witness ==
  \E r \in Runs :
    /\ run[r].pc = "grace"
    /\ KindsWritten(r) = <<"system", "junk", "result">>
    /\ KindsStored(br[r].lines[1].ev.session_id) = <<"system", "result">>

IsSystem(w) == w.ev.type = "system" /\ w.ev.session_id # None

\* the id of the first system event among the lines ls, None without one
FirstSystemId(ls) ==
  IF \E i \in DOMAIN ls : IsSystem(ls[i])
    THEN ls[CHOOSE i \in DOMAIN ls :
              IsSystem(ls[i]) /\ \A j \in 1..(i - 1) : ~IsSystem(ls[j])
           ].ev.session_id
    ELSE None

\* the parseable lines the children of run r wrote: kind and id, in order
ParseableWritten(r) ==
  LET ok == SelectSeq(br[r].lines, LAMBDA w : w.ev.type # "junk")
  IN [i \in DOMAIN ok |-> <<ok[i].ev.type, ok[i].ev.session_id>>]

\* the protocol records run r wrote under session s: kind and id, in order
RecordsOf(r, s) ==
  LET mine == SelectSeq(store.stream[s], LAMBDA e : e.by = r)
  IN [i \in DOMAIN mine |-> <<mine[i].type, mine[i].session_id>>]

\* C26: the protocol records a run appended under its session (the id of the
\* first system event it saw) are exactly the parseable lines its
\* subprocesses wrote, every one of them and in arrival order, and the run
\* appended no protocol record under any other id.
C26_AllLinesPersisted ==
  \A r \in Runs :
    LET F == FirstSystemId(br[r].lines) IN
    InExecuteInner(run[r]) /\ F # None =>
      /\ RecordsOf(r, F) = ParseableWritten(r)
      /\ \A s \in SessionIds \ {F} : RecordsOf(r, s) = <<>>

\* C27: a system event with another id after the first one creates no
\* session and no metadata for that id, the run's protocol records keep
\* going to the first id, and the metadata update at the end of the run
\* (the totals) goes to the first id, when the result event carries that
\* id or none.
C27_LaterSystemIdIgnored ==
  \A r \in Runs :
    LET F == FirstSystemId(br[r].lines) IN
    F # None =>
      /\ \A s \in SessionIds \ {F} :
           s \notin DOMAIN store.meta /\ RecordsOf(r, s) = <<>>
      /\ run[r].streamSessionId = F
      /\ run[r].pc = "innerDone" /\ run[r].outcome = "ok"
         /\ br[r].resultEvent.session_id \in {None, F} =>
           store.meta[F].totals = "set"

\* C28: the session id the bridge holds for an attempt is the id of the
\* first system event of that attempt, whatever ids later system events
\* carry: it is the id a timeout error reports, and the id of the response
\* when the result event carries none.
C28_BridgeFirstSystemWins ==
  \A r \in Runs :
    LET mine == SelectSeq(br[r].lines, LAMBDA w : w.attempt = br[r].attempt)
        F == FirstSystemId(mine)
    IN /\ run[r].pc = "sending" => br[r].sessionId = F
       /\ br[r].settle = "timeout" => br[r].errSessionId = F
       /\ run[r].pc = "grace" /\ br[r].resultEvent.session_id = None =>
            run[r].response.session_id = F

\* C25: a line that is no hook record (malformed, or with a missing or an
\* unknown discriminator) emits no event, and does not keep a well-formed
\* line from being emitted: every complete well-formed line the inbox has
\* read past, also one in the same batch as such a line, was emitted once.
C25_BadLinesSkipped ==
  \A k \in LineNumbers :
    /\ ~Emittable(k) => EventsOf(k) = {}
    /\ Emittable(k) /\ Consumed(k) => Cardinality(EventsOf(k)) = 1

\* C29: a line whose two chunks are divided inside its two-byte character
\* is emitted, once the inbox has read past it, with the text it was written
\* with, whether or not a read came between the chunks.
C29_SplitCharIntact ==
  \A k \in LineNumbers :
    LET l == eventsFile.lines[k] IN
    /\ l.split > 0
    /\ Encode(LineChars(l.line, k))[l.split] = Lead
    /\ Emittable(k) /\ Consumed(k)
    => /\ EventsOf(k) # {}
       /\ \A i \in EventsOf(k) : inbox.emitted[i].text = l.line.text

\* the record a handler of run r persists for a hook event of the run's own
\* session
OwnRecord(r, k, seq) ==
  PersistedEvent(seq, clock, k, Own(run[r]), r, Own(run[r]))

\* C30: while a run waits in its grace period its six handlers are still
\* subscribed and nothing has been composed; a hook event of the run's own
\* session emitted then is persisted by the run (a session-start when it is
\* the first of the run) and, for the tool and sub-agent kinds, accumulated;
\* the handlers are removed only by the step that ends the grace period.
C30_GraceCatchesLateHooks ==
  /\ [](\A r \in Runs :
          run[r].pc = "grace" =>
            /\ \A k \in HookTypes : \E i \in DOMAIN listeners[k] :
                 listeners[k][i] = r
            /\ run[r].outcome = None /\ ~run[r].graceElapsed)
  /\ [][\A r \in Runs : \A k \in HookTypes :
          /\ run[r].pc = "grace" /\ Own(run[r]) # None
          /\ k = "session-start" => run[r].hookSessionId = None
          /\ EmitHook(k, Own(run[r]))
          => /\ store'.hooks[Own(run[r])] =
                  Append(store.hooks[Own(run[r])],
                         OwnRecord(r, k, Len(store.hooks[Own(run[r])]) + 1))
             /\ k \in {"tool-use", "tool-failure"} =>
                  run'[r].hookActivities =
                    Append(run[r].hookActivities,
                           Activity(k, Own(run[r]), "grace"))
             /\ k \in {"subagent-start", "subagent-stop"} =>
                  run'[r].subagentActivities =
                    Append(run[r].subagentActivities,
                           Activity(k, Own(run[r]), "grace"))]_vars
  /\ [][\A r \in Runs :
          Subscribed(r) /\ ~Subscribed(r)' /\ run[r].pc = "grace"
          => run'[r].graceElapsed /\ run'[r].outcome = "ok"]_vars

C30_Witness ==
  \E r \in Runs :
    /\ run[r].pc = "innerDone" /\ run[r].outcome = "ok"
    /\ run[r].graceElapsed
    /\ Len(run[r].hookActivities) = 1
    /\ run[r].hookActivities[1].phase = "grace"
    /\ run[r].hookActivities[1].session_id = Own(run[r])
    /\ \E i \in DOMAIN store.hooks["sA"] :
         store.hooks["sA"][i].by = r /\ store.hooks["sA"][i].type = "stop"

\* a following /cc-execute for workspace w would start a run
Accepts(ss, w) ==
  hasPendingPlan(ss, w) /\ getSession(ss, w).claudeSessionId # None

IsExecute(i) ==
  i \in DOMAIN sessions.calls /\ sessions.calls[i].cmd = "execute"

C31_PollAloneDelivers ==
  \A k \in 1..InboxAppends :
    (/\ k \in LineNumbers
     /\ Emittable(k)
     /\ Running
     /\ eventsFile.lines[k].gen = inbox.gen
     /\ eventsFile.lines[k].epoch = eventsFile.epoch)
    ~> (\/ ~Running
        \/ /\ k \in LineNumbers
           /\ \/ EventsOf(k) # {}
              \/ eventsFile.lines[k].gen # inbox.gen)

\* a line was emitted in a watch session that has no watcher
C31_Witness ==
  /\ Running /\ ~inbox.watcher
  /\ \E k \in LineNumbers :
       /\ Emittable(k) /\ eventsFile.lines[k].gen = inbox.gen
       /\ \E i \in EventsOf(k) : inbox.emitted[i].gen = inbox.gen

\* C32: stop leaves no watcher and no poll timer, an empty log, offset 0
\* and an empty leftover; from stop to the next start nothing is emitted,
\* also by a callback that runs after stop; and an event emitted after the
\* next start was written whole in that watch session: no leftover of the
\* session before is joined to it.
C32_StopIsClean ==
  /\ [][InboxStop =>
          /\ ~inbox'.watcher /\ ~inbox'.pollTimer
          /\ eventsFile'.bytes = <<>>
          /\ inbox'.offset = 0 /\ inbox'.leftover = <<>>]_vars
  /\ [][inbox.stopped /\ inbox'.stopped =>
          /\ inbox'.emitted = inbox.emitted
          /\ inbox'.offset = 0 /\ inbox'.leftover = <<>>
          /\ run' = run /\ store' = store]_vars
  /\ [](\A i \in DOMAIN inbox.emitted :
          \A k \in LineNumbers :
            inbox.emitted[i].serial = Serial(k) =>
              eventsFile.lines[k].gen = inbox.emitted[i].gen)

\* a partial line was read before stop, a callback ran after stop, and the
\* next watch session emitted a line
C32_Witness ==
  /\ inbox.gen = 2 /\ Running /\ inbox.late
  /\ eventsFile.lines # <<>>
  /\ eventsFile.lines[1].split > 0 /\ eventsFile.lines[1].gen = 1
  /\ ~eventsFile.lines[1].whole
  /\ \E i \in DOMAIN inbox.emitted : inbox.emitted[i].gen = 2

\* C33: the index rebuilt from the metadata records has, for each session,
\* the workspace and the first prompt of the in-memory entry that
\* ensureSession and updateSessionMeta had built, after any sequence of
\* those operations.
C33_RebuildSameFields ==
  [][store.instance = 1 /\ store'.lastOp = "rebuild"
     => /\ DOMAIN store'.index = DOMAIN store.index
        /\ \A s \in DOMAIN store.index :
             /\ store'.index[s].workspace = store.index[s].workspace
             /\ store'.index[s].firstPrompt = store.index[s].firstPrompt
    ]_vars

\* the index file holds the in-memory index
IndexWritten ==
  \/ store.indexFile.exists /\ store.indexFile.entries = store.index
  \/ ~store.indexFile.exists /\ DOMAIN store.index = {}

\* C34: at most one debounce timer is pending, the index is dirty exactly
\* when a timer is pending, an index that is not dirty is in the index
\* file, and while the process keeps running a dirty index is eventually
\* written to the index file, with no explicit flush needed.
C34_DebounceCoalesces ==
  /\ [](store.timers <= 1)
  /\ [](store.indexDirty <=> store.timers > 0)
  /\ [](store.flushTimer <=> store.timers > 0)
  /\ [](~store.indexDirty => IndexWritten)
  /\ \A n \in 1..StoreInstances :
       (store.instance = n /\ store.indexDirty)
         ~> (store.instance # n \/ (~store.indexDirty /\ IndexWritten))

\* the timer wrote an index that several changes had made dirty
C34_Witness ==
  /\ store.lastOp = "timer" /\ store.saved
  /\ ~store.indexDirty /\ store.timers = 0
  /\ IndexWritten
  /\ Appended >= 2

\* C35: the calls of one workspace enter executeInner in the order in
\* which execute was called: when a call starts, every earlier call of its
\* workspace has started before, whatever the number of calls waiting and
\* whether the earlier runs returned or failed.
C35_FifoPerWorkspace ==
  [][\A r \in Runs :
       run[r].pc = "waiting" /\ run'[r].pc # "waiting" =>
         /\ run'[r].pc = "sending"
         /\ \A q \in Runs :
              q < r /\ run[q].pc # "new" /\ run[q].workspace = run[r].workspace
                => run[q].pc \notin {"new", "waiting"}
         /\ \A q \in Runs :
              q > r /\ run[q].workspace = run[r].workspace
                => run[q].pc \in {"new", "waiting"}
    ]_vars

\* three calls of one workspace, the third called while the second had not
\* finished; the first failed, the second returned, the third has started
C35_Witness ==
  /\ run[3].prev = 2
  /\ run[1].workspace = run[3].workspace
  /\ run[1].pc = "done" /\ run[1].outcome \notin {None, "ok"}
  /\ run[2].pc = "done" /\ run[2].outcome = "ok"
  /\ run[3].pc = "sending"

\* C36: every session that has a metadata record is in the index, also
\* after the process ended between the creation of a session and the
\* debounced write of the index, a new Event Store was constructed and
\* further events were appended to that session.
C36_MetaInIndex ==
  \A s \in DOMAIN store.meta : s \in DOMAIN store.index

\* C37: for every session the protocol event count and the hook event
\* count of its metadata record are the numbers of records of its protocol
\* log and of its hook log, and a session without metadata record has no
\* records, after any appends, metadata updates and re-creations of the
\* Event Store.
C37_CountsMatchLogs ==
  \A s \in SessionIds :
    IF s \in DOMAIN store.meta
      THEN /\ store.meta[s].streamEventCount = Len(readJsonl(store.stream[s]))
           /\ store.meta[s].hookEventCount = Len(readJsonl(store.hooks[s]))
      ELSE store.stream[s] = <<>> /\ store.hooks[s] = <<>>

\* a session with records of both kinds, written by two Event Store
\* instances, and with a metadata update
C37_Witness ==
  /\ store.instance = 2
  /\ "sA" \in DOMAIN store.meta
  /\ store.meta["sA"].totals = "set"
  /\ store.meta["sA"].streamEventCount = 2
  /\ store.meta["sA"].hookEventCount = 1
  /\ store.stream["sA"][2].seq = 1

\* the hook records of all sessions
HookRecords == Len(store.hooks["sA"]) + Len(store.hooks["sB"])

\* C38: each line of the hook log gives at most one persisted hook record:
\* the Event Store never holds more hook records than events were emitted,
\* also when several runs are subscribed to the Hook Inbox at a time.
C38_OneRecordPerLine ==
  HookRecords <= hooksEmitted

\* a result line is among the lines the child of the current attempt wrote
ResultWritten(r) ==
  \E i \in DOMAIN br[r].lines :
    /\ br[r].lines[i].ev.type = "result"
    /\ br[r].lines[i].attempt = br[r].attempt

\* C39: whether an attempt that ends with the close of its subprocess
\* succeeds depends on the output of the subprocess only: it succeeds if
\* and only if the subprocess wrote a result line, also when a callback
\* threw an exception while a line was processed.
C39_OutcomeFromOutputOnly ==
  \A r \in Runs :
    br[r].settle \in {"resolved", "noresult"} =>
      (br[r].settle = "resolved" <=> ResultWritten(r))

\* C40: while an execute command of a workspace is in its run, a later
\* execute command of the same sender and workspace is refused and starts
\* no run; and an execute command that finds no pending plan or no session
\* starts no run.
C40_OneExecuteAtATime ==
  /\ [](\A i, j \in DOMAIN sessions.calls :
          /\ i < j
          /\ sessions.calls[i].cmd = "execute"
          /\ sessions.calls[j].cmd = "execute"
          /\ sessions.calls[i].workspace = sessions.calls[j].workspace
          /\ sessions.calls[i].state = "running"
          => sessions.calls[j].state = "rejected")
  /\ [][\A w \in Workspaces :
          CmdExecute(w) /\ ~Accepts(sessions, w) =>
            sessions'.calls[Len(sessions'.calls)].state = "rejected"]_vars

====
